---- MODULE Spec2Model ----
(***************************************************************************)
(* Bank Statement Analyzer: the learned-pattern registry and the stored    *)
(* transactions (database.py), the line parser, the categorization engine  *)
(* and the health score (streamlit_app_v2.py), and the monthly summary,    *)
(* debt summary, scorecard and recurring table (streamlit_app.py).         *)
(*                                                                         *)
(* Conventions of the model                                                *)
(*  - A Python str is computed on as the sequence of its characters, so   *)
(*    that str.lower() and the substring test `in` are computed.           *)
(*  - A confidence (a float in [0,1]) is kept in hundredths: 1.0 is 100,   *)
(*    0.5 is 50.  An amount is an integer number of currency units.        *)
(*  - datetime.utcnow() is a clock that has advanced between any two       *)
(*    database writes: every write reads a later instant than the last.    *)
(***************************************************************************)
EXTENDS Integers, Sequences, FiniteSets, TLC

VARIABLES
  rows,               \* table learned_patterns
  nextId,             \* next primary key of learned_patterns
  clock,              \* the latest instant datetime.utcnow() has returned
  last,               \* the operation performed last and what it returned
  txns,               \* the list `transactions` of the statement being read
  score,              \* the value calculate_score returned
  ledger,             \* the transactions handed to the reports (the `df`)
  report,             \* the report computed last
  statements,         \* table bank_statements
  transactions,       \* table transactions
  nextStatementId,    \* next primary key of bank_statements
  nextTransactionId,  \* next primary key of transactions
  calls,              \* the calls of save_learned_pattern under way, by session
  session,            \* st.session_state of the browser session
  users               \* table users

\* The variables of the reports of streamlit_app.py.
ledgerVars == <<ledger, report>>

\* The variables of the stored statements.
storeVars ==
  <<statements, transactions, nextStatementId, nextTransactionId>>

\* The variables of the concurrent calls, and of the authentication.
callVars == <<calls>>
authVars == <<session, users>>

vars ==
  <<rows, nextId, clock, last, txns, score, ledgerVars, storeVars,
    callVars, authVars>>

(* ------------------------------ bounds -------------------------------- *)

\* Number of database writes (readings of the clock) in one behaviour.
MaxClock == 3

\* Number of transactions of one statement.
MaxTxns == 4

\* The longest list of transactions the reports of streamlit_app.py are
\* computed from.
MaxLedger == 4

(* ----------------------- strings (Python str) ------------------------- *)

UpperChars ==
  <<"A","B","C","D","E","F","G","H","I","J","K","L","M",
    "N","O","P","Q","R","S","T","U","V","W","X","Y","Z">>

LowerChars ==
  <<"a","b","c","d","e","f","g","h","i","j","k","l","m",
    "n","o","p","q","r","s","t","u","v","w","x","y","z">>

\* str.lower() on the characters that have a lower-case form.
UpperToLower ==
  [c \in {UpperChars[i] : i \in 1..Len(UpperChars)} |->
     LowerChars[CHOOSE i \in 1..Len(UpperChars) : UpperChars[i] = c]]

\* str.lower() on one character.
LowerChar(c) == IF c \in DOMAIN UpperToLower THEN UpperToLower[c] ELSE c

\* str.lower()
str_lower(s) == [i \in 1..Len(s) |-> LowerChar(s[i])]

\* Python's `p in s` on two str: p occurs in s as a contiguous substring.
\* The empty string occurs in every string.
str_in(p, s) ==
  \E i \in 0..(Len(s) - Len(p)) : SubSeq(s, i + 1, i + Len(p)) = p

Min(S) == CHOOSE x \in S : \A y \in S : x <= y

(* --------------------- CATEGORIES (declaration order) ------------------ *)

CATEGORIES ==
  <<
   [name |-> "MCA_DEBT",
    patterns |-> <<
         <<"d","a","i","l","y"," ","a","c","h">>,
         <<"m","e","r","c","h","a","n","t"," ","c","a","s","h">>,
         <<"f","u","n","d","b","o","x">>,
         <<"k","a","b","b","a","g","e">>,
         <<"o","n","d","e","c","k">>,
         <<"b","l","u","e","v","i","n","e">>,
         <<"c","r","e","d","i","b","l","y">>,
         <<"r","a","p","i","d"," ","f","i","n","a","n","c","e">>,
         <<"f","o","r","w","a","r","d"," ","f","i","n","a","n","c","i","n","g">>,
         <<"c","l","e","a","r","c","o">>,
         <<"s","h","o","p","i","f","y"," ","c","a","p","i","t","a","l">> >>],
   [name |-> "LOAN_PAYMENT",
    patterns |-> <<
         <<"l","o","a","n"," ","p","m","t">>,
         <<"l","o","a","n"," ","p","a","y","m","e","n","t">>,
         <<"s","b","a"," ","l","o","a","n">>,
         <<"t","e","r","m"," ","l","o","a","n">>,
         <<"l","e","n","d","i","n","g"," ","c","l","u","b">>,
         <<"p","r","o","s","p","e","r">>,
         <<"f","u","n","d","i","n","g"," ","c","i","r","c","l","e">> >>],
   [name |-> "RENT",
    patterns |-> <<
         <<"r","e","n","t">>,
         <<"l","e","a","s","e">>,
         <<"p","r","o","p","e","r","t","y"," ","m","g","m","t">>,
         <<"l","a","n","d","l","o","r","d">> >>],
   [name |-> "PAYROLL",
    patterns |-> <<
         <<"p","a","y","r","o","l","l">>,
         <<"g","u","s","t","o">>,
         <<"a","d","p">>,
         <<"p","a","y","c","h","e","x">>,
         <<"q","u","i","c","k","b","o","o","k","s"," ","p","a","y","r","o","l","l">>,
         <<"s","q","u","a","r","e"," ","p","a","y","r","o","l","l">> >>],
   [name |-> "UTILITIES",
    patterns |-> <<
         <<"e","l","e","c","t","r","i","c">>,
         <<"g","a","s"," ","b","i","l","l">>,
         <<"w","a","t","e","r"," ","b","i","l","l">>,
         <<"u","t","i","l","i","t","y">>,
         <<"p","g","e">>,
         <<"e","d","i","s","o","n">>,
         <<"c","o","m","c","a","s","t">>,
         <<"a","t","t">>,
         <<"v","e","r","i","z","o","n">> >>],
   [name |-> "INSURANCE",
    patterns |-> <<
         <<"i","n","s","u","r","a","n","c","e">>,
         <<"g","e","i","c","o">>,
         <<"a","l","l","s","t","a","t","e">>,
         <<"p","r","o","g","r","e","s","s","i","v","e">>,
         <<"s","t","a","t","e"," ","f","a","r","m">> >>],
   [name |-> "REVENUE",
    patterns |-> <<
         <<"d","e","p","o","s","i","t">>,
         <<"p","a","y","m","e","n","t"," ","r","e","c","e","i","v","e","d">>,
         <<"s","t","r","i","p","e">>,
         <<"s","q","u","a","r","e">>,
         <<"p","a","y","p","a","l">>,
         <<"s","h","o","p","i","f","y">>,
         <<"a","m","a","z","o","n"," ","p","a","y","o","u","t">>,
         <<"p","o","s"," ","d","e","p","o","s","i","t">> >>],
   [name |-> "TRANSFER_IN",
    patterns |-> <<
         <<"t","r","a","n","s","f","e","r"," ","f","r","o","m">>,
         <<"x","f","e","r"," ","f","r","o","m">>,
         <<"m","o","b","i","l","e"," ","d","e","p","o","s","i","t">> >>],
   [name |-> "TRANSFER_OUT",
    patterns |-> <<
         <<"t","r","a","n","s","f","e","r"," ","t","o">>,
         <<"x","f","e","r"," ","t","o">>,
         <<"w","i","r","e"," ","o","u","t">> >>],
   [name |-> "TAX",
    patterns |-> <<
         <<"i","r","s">>,
         <<"t","a","x"," ","p","a","y","m","e","n","t">>,
         <<"e","s","t","i","m","a","t","e","d"," ","t","a","x">>,
         <<"s","t","a","t","e"," ","t","a","x">>,
         <<"f","r","a","n","c","h","i","s","e"," ","t","a","x">> >>],
   [name |-> "CREDIT_CARD",
    patterns |-> <<
         <<"c","r","e","d","i","t"," ","c","a","r","d">>,
         <<"a","m","e","x">>,
         <<"c","h","a","s","e"," ","c","a","r","d">>,
         <<"v","i","s","a"," ","p","a","y","m","e","n","t">>,
         <<"m","a","s","t","e","r","c","a","r","d">> >>],
   [name |-> "OTHER_EXPENSE",
    patterns |-> <<
          >>]
  >>

\* list(CATEGORIES.keys()): the closed category enumeration.
CategoryKeys == {CATEGORIES[k].name : k \in 1..Len(CATEGORIES)}

\* Confidence of a default keyword match: `return category, 1.0`.
DefaultConfidence == 100

\* Confidence of the sign-based fallback: `return 'REVENUE', 0.5`.
FallbackConfidence == 50

\* LearnedPattern.confidence = Column(Float, default=1.0)
ColumnDefaultConfidence == 100

\* LearnedPattern.times_used = Column(Integer, default=1)
ColumnDefaultTimesUsed == 1

(* ------------------------------ inputs -------------------------------- *)

\* st.session_state.user_id of the sessions that use the application.
Users == {"u1", "u2"}

P_EMPTY == ""
P_ACME_CORP == "ACME CORP"
P_acme == "acme"

\* Texts typed into "Transaction text to match:".
PatternTexts == {P_EMPTY, P_ACME_CORP, P_acme}

\* Categories chosen in the selectbox (a subset of list(CATEGORIES.keys())).
TeachCategories == {"RENT", "PAYROLL"}

D_EMPTY == ""
D_ACME_PROPERTY == "ACME CORP PROPERTY 9921"
D_ACME_RENT == "ACME CORP RENT"

\* Transaction descriptions handed to categorize_transaction.
Descriptions == {D_EMPTY, D_ACME_PROPERTY, D_ACME_RENT}

\* Descriptions as extract_transactions_from_pdf leaves them (without blanks).
ExtractedDescriptions ==
  {"STRIPEDEPOSIT", "DAILYACHFUNDBOX", "DEBITCARDPURCHASE", "WIREOUT",
   "ACMECORPRENT"}

\* The characters of every str the model uses: a str is named by a TLA+
\* string and computed on as the sequence of its characters.
chars ==
  ("" :> << >>) @@
  ("ACME CORP" :> <<"A","C","M","E"," ","C","O","R","P">>) @@
  ("acme" :> <<"a","c","m","e">>) @@
  ("ACME" :> <<"A","C","M","E">>) @@
  ("ACME CORP PROPERTY 9921" :>
     <<"A","C","M","E"," ","C","O","R","P"," ","P","R","O","P","E","R","T","Y"," ","9","9","2","1">>) @@
  ("ACME CORP RENT" :> <<"A","C","M","E"," ","C","O","R","P"," ","R","E","N","T">>) @@
  ("01/05 STRIPE DEPOSIT $15,000.00" :>
     <<"0","1","/","0","5"," ","S","T","R","I","P","E"," ","D","E","P","O","S","I","T"," ","$","1","5",",","0","0","0",".","0","0">>) @@
  ("01/06 DAILY ACH FUNDBOX -$450.00" :>
     <<"0","1","/","0","6"," ","D","A","I","L","Y"," ","A","C","H"," ","F","U","N","D","B","O","X"," ","-","$","4","5","0",".","0","0">>) @@
  ("01/07 DEBIT CARD PURCHASE $25.00" :>
     <<"0","1","/","0","7"," ","D","E","B","I","T"," ","C","A","R","D"," ","P","U","R","C","H","A","S","E"," ","$","2","5",".","0","0">>) @@
  ("01/08 CHECK 450.00" :>
     <<"0","1","/","0","8"," ","C","H","E","C","K"," ","4","5","0",".","0","0">>) @@
  ("01/09 WIRE OUT -$300.00 $1,200.00" :>
     <<"0","1","/","0","9"," ","W","I","R","E"," ","O","U","T"," ","-","$","3","0","0",".","0","0"," ","$","1",",","2","0","0",".","0","0">>) @@
  ("01/10 PAYMENT $1.5.00" :>
     <<"0","1","/","1","0"," ","P","A","Y","M","E","N","T"," ","$","1",".","5",".","0","0">>) @@
  ("STRIPEDEPOSIT" :>
     <<"S","T","R","I","P","E","D","E","P","O","S","I","T">>) @@
  ("DAILYACHFUNDBOX" :>
     <<"D","A","I","L","Y","A","C","H","F","U","N","D","B","O","X">>) @@
  ("DEBITCARDPURCHASE" :>
     <<"D","E","B","I","T","C","A","R","D","P","U","R","C","H","A","S","E">>) @@
  ("WIREOUT" :>
     <<"W","I","R","E","O","U","T">>) @@
  ("01/0" :>
     <<"0","1","/","0">>) @@
  ("01/1" :>
     <<"0","1","/","1">>) @@
  ("2023-12-30" :> <<"2","0","2","3","-","1","2","-","3","0">>) @@
  ("2024-01-06" :> <<"2","0","2","4","-","0","1","-","0","6">>) @@
  ("2024-01-07" :> <<"2","0","2","4","-","0","1","-","0","7">>) @@
  ("2024-01-13" :> <<"2","0","2","4","-","0","1","-","1","3">>) @@
  ("2024-01-20" :> <<"2","0","2","4","-","0","1","-","2","0">>) @@
  ("2024-02-01" :> <<"2","0","2","4","-","0","2","-","0","1">>) @@
  ("2023-12" :> <<"2","0","2","3","-","1","2">>) @@
  ("2024-01" :> <<"2","0","2","4","-","0","1">>) @@
  ("2024-02" :> <<"2","0","2","4","-","0","2">>) @@
  ("01/03 ACME CORP RENT $20.00" :>
     <<"0","1","/","0","3"," ","A","C","M","E"," ","C","O","R","P"," ","R","E","N","T"," ","$","2","0",".","0","0">>) @@
  ("ACMECORPRENT" :>
     <<"A","C","M","E","C","O","R","P","R","E","N","T">>) @@
  ("abc" :> <<"a","b","c">>) @@
  ("demo123456" :> <<"d","e","m","o","1","2","3","4","5","6">>) @@
  ("NSF FEE" :> <<"N","S","F"," ","F","E","E">>) @@
  ("POS DEPOSIT" :> <<"P","O","S"," ","D","E","P","O","S","I","T">>)

\* Transaction amounts: a debit, zero and a credit.
Amounts == {-450, 0, 15000}

(* ----------------------- database.py: the registry --------------------- *)

\* db.query(LearnedPattern).filter(user_id == u, pattern == p): the rows of
\* table learned_patterns with this user and exactly this text (the SQL `=`
\* of PostgreSQL compares text case-sensitively).
ExistingRows(tbl, user_id, pattern) ==
  {r \in tbl : r.user_id = user_id /\ r.pattern = pattern}

\* .first() of that query: the query has no ORDER BY; with at most one such
\* row there is no choice, otherwise the row stored first is taken.
FirstRow(S) == CHOOSE r \in S : \A q \in S : r.id <= q.id

\* str.upper() on one character.
UpperChar(c) ==
  IF \E i \in 1..Len(LowerChars) : LowerChars[i] = c
  THEN UpperChars[CHOOSE i \in 1..Len(LowerChars) : LowerChars[i] = c]
  ELSE c

\* str.upper()
str_upper(s) == [i \in 1..Len(s) |-> UpperChar(s[i])]

\* str.split(): the whitespace-delimited tokens of s.
RECURSIVE str_split(_)
str_split(s) ==
  IF s = << >> THEN << >>
  ELSE IF Head(s) = " " THEN str_split(Tail(s))
  ELSE LET stop == IF \E i \in 1..Len(s) : s[i] = " "
                   THEN Min({i \in 1..Len(s) : s[i] = " "})
                   ELSE Len(s) + 1
       IN <<SubSeq(s, 1, stop - 1)>> \o str_split(SubSeq(s, stop, Len(s)))

\* A pattern key: the first two tokens of s (the first one when there is
\* only one), upper-cased and joined by a blank.
PatternKey(s) ==
  LET t == str_split(s) IN
  IF Len(t) = 0 THEN << >>
  ELSE IF Len(t) = 1 THEN str_upper(t[1])
  ELSE str_upper(t[1]) \o <<" ">> \o str_upper(t[2])

\* The str whose characters are the pattern key of p.
KeyName(p) == CHOOSE k \in DOMAIN chars : chars[k] = PatternKey(chars[p])

\* As save_learned_pattern, but the text is stored as its pattern key.
save_learned_pattern_Keyed(tbl, user_id, pattern, category, id, now) ==
  LET existing == {r \in tbl : r.user_id = user_id
                                /\ r.pattern = KeyName(pattern)} IN
  IF existing # {}
  THEN LET e == CHOOSE r \in existing : \A q \in existing : r.id <= q.id IN
       (tbl \ {e}) \cup
         {[e EXCEPT !.times_used = e.times_used + 1, !.updated_at = now]}
  ELSE tbl \cup
         {[id |-> id, user_id |-> user_id, pattern |-> KeyName(pattern),
           category |-> category,
           times_used |-> ColumnDefaultTimesUsed,
           confidence |-> ColumnDefaultConfidence,
           created_at |-> now, updated_at |-> now]}

\* An upsert: as save_learned_pattern, but re-learning overwrites the category.
save_learned_pattern_Upsert(tbl, user_id, pattern, category, id, now) ==
  LET existing == ExistingRows(tbl, user_id, pattern) IN
  IF existing # {}
  THEN LET e == FirstRow(existing) IN
       (tbl \ {e}) \cup
         {[e EXCEPT !.times_used = e.times_used + 1, !.updated_at = now,
                    !.category = category]}
  ELSE tbl \cup
         {[id |-> id, user_id |-> user_id, pattern |-> pattern,
           category |-> category,
           times_used |-> ColumnDefaultTimesUsed,
           confidence |-> ColumnDefaultConfidence,
           created_at |-> now, updated_at |-> now]}

\* As save_learned_pattern, but a new pattern is stored with confidence 0.80.
save_learned_pattern_Conf80(tbl, user_id, pattern, category, id, now) ==
  LET existing == ExistingRows(tbl, user_id, pattern) IN
  IF existing # {}
  THEN LET e == FirstRow(existing) IN
       (tbl \ {e}) \cup
         {[e EXCEPT !.times_used = e.times_used + 1, !.updated_at = now]}
  ELSE tbl \cup
         {[id |-> id, user_id |-> user_id, pattern |-> pattern,
           category |-> category,
           times_used |-> ColumnDefaultTimesUsed,
           confidence |-> 80,
           created_at |-> now, updated_at |-> now]}

\* save_learned_pattern(db, user_id, pattern, category): the table after the
\* call, where id is the next value of the primary-key sequence and now is
\* the value of datetime.utcnow().
save_learned_pattern(tbl, user_id, pattern, category, id, now) ==
  LET existing == ExistingRows(tbl, user_id, pattern) IN
  IF existing # {}
  THEN LET e == FirstRow(existing) IN
       (tbl \ {e}) \cup
         {[e EXCEPT !.times_used = e.times_used + 1, !.updated_at = now]}
  ELSE tbl \cup
         {[id |-> id, user_id |-> user_id, pattern |-> pattern,
           category |-> category,
           times_used |-> ColumnDefaultTimesUsed,
           confidence |-> ColumnDefaultConfidence,
           created_at |-> now, updated_at |-> now]}

\* The rows of S in insertion order (ORDER BY id).
RECURSIVE OrderById(_)
OrderById(S) ==
  IF S = {} THEN << >>
  ELSE LET r == CHOOSE x \in S : \A y \in S : x.id <= y.id
       IN <<r>> \o OrderById(S \ {r})

\* .order_by(LearnedPattern.updated_at.desc()): a sequence holding the rows
\* of S, latest updated_at first.
RECURSIVE OrderByUpdatedAtDesc(_)
OrderByUpdatedAtDesc(S) ==
  IF S = {} THEN << >>
  ELSE LET r == CHOOSE x \in S : \A y \in S : x.updated_at >= y.updated_at
       IN <<r>> \o OrderByUpdatedAtDesc(S \ {r})

\* As get_user_patterns, but in insertion order.
get_user_patterns_InsertionOrder(tbl, user_id) ==
  OrderById({r \in tbl : r.user_id = user_id})

\* As get_user_patterns, but from a snapshot taken before the latest write.
get_user_patterns_Stale(tbl, user_id) ==
  OrderByUpdatedAtDesc({r \in tbl : r.user_id = user_id
                                     /\ r.updated_at < clock})

\* get_user_patterns(db, user_id)
get_user_patterns(tbl, user_id) ==
  OrderByUpdatedAtDesc({r \in tbl : r.user_id = user_id})

\* delete_pattern(db, pattern_id): the table after the call.
delete_pattern(tbl, pattern_id) == {r \in tbl : r.id # pattern_id}

(* ------------------ streamlit_app_v2.py: categorization ---------------- *)

\* desc_lower = description.lower(), tabulated over the descriptions used.
desc_lower_of ==
  [d \in Descriptions \cup ExtractedDescriptions |-> str_lower(chars[d])]

\* pattern.pattern.lower() in desc_lower, tabulated over the texts used.
pattern_in_desc ==
  [p \in PatternTexts, d \in Descriptions \cup ExtractedDescriptions |->
     str_in(str_lower(chars[p]), desc_lower_of[d])]

\* Indexes of the learned patterns that match the description.
LearnedMatches(description, user_patterns) ==
  {i \in 1..Len(user_patterns) :
     pattern_in_desc[user_patterns[i].pattern, description]}

\* Indexes of the categories one of whose keywords occurs in desc_lower.
DefaultMatches(description) ==
  {k \in 1..Len(CATEGORIES) :
     \E j \in 1..Len(CATEGORIES[k].patterns) :
        str_in(CATEGORIES[k].patterns[j], desc_lower_of[description])}

\* The same, tabulated over the descriptions used (the keyword scan does not
\* depend on the registry).
DefaultMatchesOf ==
  [d \in Descriptions \cup ExtractedDescriptions |-> DefaultMatches(d)]

\* As categorize_transaction, but the default keywords are consulted first.
categorize_transaction_DefaultsFirst(description, amount, user_patterns) ==
  LET learned == LearnedMatches(description, user_patterns)
      defaults == DefaultMatchesOf[description]
  IN IF defaults # {}
     THEN <<CATEGORIES[Min(defaults)].name, DefaultConfidence>>
     ELSE IF learned # {}
     THEN <<user_patterns[Min(learned)].category,
            user_patterns[Min(learned)].confidence>>
     ELSE IF amount > 0
     THEN <<"REVENUE", FallbackConfidence>>
     ELSE <<"OTHER_EXPENSE", FallbackConfidence>>

\* As categorize_transaction, but the fallback for a credit is OTHER_INCOME.
categorize_transaction_OtherIncome(description, amount, user_patterns) ==
  LET learned == LearnedMatches(description, user_patterns)
      defaults == DefaultMatchesOf[description]
  IN IF learned # {}
     THEN <<user_patterns[Min(learned)].category,
            user_patterns[Min(learned)].confidence>>
     ELSE IF defaults # {}
     THEN <<CATEGORIES[Min(defaults)].name, DefaultConfidence>>
     ELSE IF amount > 0
     THEN <<"OTHER_INCOME", FallbackConfidence>>
     ELSE <<"OTHER_EXPENSE", FallbackConfidence>>

\* As categorize_transaction, but a zero amount falls back to REVENUE.
categorize_transaction_ZeroIsRevenue(description, amount, user_patterns) ==
  LET learned == LearnedMatches(description, user_patterns)
      defaults == DefaultMatchesOf[description]
  IN IF learned # {}
     THEN <<user_patterns[Min(learned)].category,
            user_patterns[Min(learned)].confidence>>
     ELSE IF defaults # {}
     THEN <<CATEGORIES[Min(defaults)].name, DefaultConfidence>>
     ELSE IF amount >= 0
     THEN <<"REVENUE", FallbackConfidence>>
     ELSE <<"OTHER_EXPENSE", FallbackConfidence>>

\* categorize_transaction(description, amount, user_patterns):
\* <<category, confidence>>.
categorize_transaction(description, amount, user_patterns) ==
  LET learned == LearnedMatches(description, user_patterns)
      defaults == DefaultMatchesOf[description]
  IN IF learned # {}
     THEN <<user_patterns[Min(learned)].category,
            user_patterns[Min(learned)].confidence>>
     ELSE IF defaults # {}
     THEN <<CATEGORIES[Min(defaults)].name, DefaultConfidence>>
     ELSE IF amount > 0
     THEN <<"REVENUE", FallbackConfidence>>
     ELSE <<"OTHER_EXPENSE", FallbackConfidence>>

(* ------------------ streamlit_app_v2.py: calculate_score --------------- *)

\* Descriptions of the transactions that are scored.
ScoreDescriptions == {"NSF FEE", "POS DEPOSIT"}

\* Amounts of the transactions that are scored: a debit and a credit.
ScoreAmounts == {-5, 14}

\* Categories of the transactions that are scored.
ScoreCategories == {"MCA_DEBT", "REVENUE"}

\* The transactions a statement may hold.
ScoreTxns ==
  [description : ScoreDescriptions, amount : ScoreAmounts,
   category : ScoreCategories]

Abs(x) == IF x < 0 THEN -x ELSE x

\* sum of column 'amount' over a list of transactions
RECURSIVE SumAmount(_)
SumAmount(ts) ==
  IF ts = << >> THEN 0 ELSE Head(ts).amount + SumAmount(Tail(ts))

\* sum of the squares of column 'amount'
RECURSIVE SumSquares(_)
SumSquares(ts) ==
  IF ts = << >> THEN 0
  ELSE Head(ts).amount * Head(ts).amount + SumSquares(Tail(ts))

\* revenue = df[df['amount'] > 0]['amount'].sum()
Revenue(ts) == SumAmount(SelectSeq(ts, LAMBDA t : t.amount > 0))

\* expenses = abs(df[df['amount'] < 0]['amount'].sum())
Expenses(ts) == Abs(SumAmount(SelectSeq(ts, LAMBDA t : t.amount < 0)))

\* Revenue-to-expense penalty: ratio < 1 costs 30, ratio < 1.5 costs 15
\* (revenue / expenses < 1.5 is 2 * revenue < 3 * expenses).
RatioPenalty(ts) ==
  IF Expenses(ts) > 0
  THEN IF Revenue(ts) < Expenses(ts) THEN 30
       ELSE IF 2 * Revenue(ts) < 3 * Expenses(ts) THEN 15
       ELSE 0
  ELSE 0

debt_categories == {"MCA_DEBT", "LOAN_PAYMENT", "CREDIT_CARD"}

\* debt = abs(df[df['category'].isin(debt_categories)]['amount'].sum())
Debt(ts) ==
  Abs(SumAmount(SelectSeq(ts, LAMBDA t : t.category \in debt_categories)))

\* As DebtPenalty, with the two penalties exchanged.
DebtPenalty_Exchanged(ts) ==
  IF Revenue(ts) > 0
  THEN IF 10 * Debt(ts) > 3 * Revenue(ts) THEN 12
       ELSE IF 20 * Debt(ts) > 3 * Revenue(ts) THEN 25
       ELSE 0
  ELSE 25

\* Debt penalty: debt_ratio = debt / revenue if revenue > 0 else 1;
\* debt_ratio > 0.3 costs 25, debt_ratio > 0.15 costs 12.
DebtPenalty(ts) ==
  IF Revenue(ts) > 0
  THEN IF 10 * Debt(ts) > 3 * Revenue(ts) THEN 25
       ELSE IF 20 * Debt(ts) > 3 * Revenue(ts) THEN 12
       ELSE 0
  ELSE 25

\* n^2 * (n - 1) * var, where var is the sample variance (pandas std() has
\* ddof=1) of column 'amount': n * (n * sum(x^2) - sum(x)^2).
ScaledVariance(ts) ==
  Len(ts) * (Len(ts) * SumSquares(ts) - SumAmount(ts) * SumAmount(ts))

\* n^2 * (n - 1) * mean^2: (n - 1) * sum(x)^2
ScaledSquaredMean(ts) == (Len(ts) - 1) * SumAmount(ts) * SumAmount(ts)

\* Volatility penalty: std > 2 * |mean| costs 20, std > |mean| costs 10.
\* Both sides are squared and scaled to stay in the integers.  The std of
\* fewer than two values is NaN, and every comparison with NaN is False.
VolatilityPenalty(ts) ==
  IF Len(ts) < 2 THEN 0
  ELSE IF ScaledVariance(ts) > 4 * ScaledSquaredMean(ts) THEN 20
  ELSE IF ScaledVariance(ts) > ScaledSquaredMean(ts) THEN 10
  ELSE 0

\* The alternatives of the pattern 'nsf|overdraft|insufficient'.
NsfKeywords ==
  {<<"n","s","f">>,
   <<"o","v","e","r","d","r","a","f","t">>,
   <<"i","n","s","u","f","f","i","c","i","e","n","t">>}

\* description.str.lower().str.contains('nsf|overdraft|insufficient'),
\* tabulated over the descriptions used.
is_nsf ==
  [d \in ScoreDescriptions \cup ExtractedDescriptions |->
     \E k \in NsfKeywords : str_in(k, str_lower(chars[d]))]

\* nsf_count
NsfCount(ts) == Len(SelectSeq(ts, LAMBDA t : is_nsf[t.description]))

\* min(nsf_count * 5, 15)
NsfPenalty(ts) == IF NsfCount(ts) * 5 < 15 THEN NsfCount(ts) * 5 ELSE 15

\* negative_count > len(df) * 0.7 costs 10.
NegativePenalty(ts) ==
  IF 10 * Len(SelectSeq(ts, LAMBDA t : t.amount < 0)) > 7 * Len(ts)
  THEN 10 ELSE 0

\* max(0, min(100, score))
Clamp(x) == IF x < 0 THEN 0 ELSE IF x > 100 THEN 100 ELSE x

\* As calculate_score, without the two caps: the NSF penalty is
\* nsf_count * 5 and the result is not clamped.
calculate_score_Uncapped(transactions_list) ==
  IF transactions_list = << >> THEN 0
  ELSE 100 - RatioPenalty(transactions_list)
           - DebtPenalty(transactions_list)
           - VolatilityPenalty(transactions_list)
           - NsfCount(transactions_list) * 5
           - NegativePenalty(transactions_list)

\* calculate_score(transactions_list)
calculate_score(transactions_list) ==
  IF transactions_list = << >> THEN 0
  ELSE Clamp(100 - RatioPenalty(transactions_list)
                 - DebtPenalty(transactions_list)
                 - VolatilityPenalty(transactions_list)
                 - NsfPenalty(transactions_list)
                 - NegativePenalty(transactions_list))

(* ------------------------------ actions -------------------------------- *)

\* The record of the operation performed last.
NoOp ==
  [op |-> "none", user |-> "", text |-> "", amount |-> 0, category |-> "",
   confidence |-> 0, outcome |-> "", id |-> 0, after |-> "none"]

\* As AddPattern, but without the check `if new_pattern:`.
AddPattern_NoCheck(u, new_pattern, new_category) ==
  LET existing == ExistingRows(rows, u, new_pattern) IN
  /\ clock < MaxClock
  /\ rows' = save_learned_pattern(rows, u, new_pattern, new_category,
                                  nextId, clock + 1)
  /\ clock' = clock + 1
  /\ nextId' = IF existing # {} THEN nextId ELSE nextId + 1
  /\ last' = [NoOp EXCEPT !.op = "add", !.user = u,
                !.text = new_pattern, !.category = new_category,
                !.outcome = "success",
                !.id = IF existing # {} THEN FirstRow(existing).id
                       ELSE nextId,
                !.after = IF existing # {} THEN "update" ELSE "insert"]
  /\ UNCHANGED <<txns, score, ledgerVars, storeVars, callVars, authVars>>

\* "Add Pattern" button: an empty text is refused with st.error, any other
\* text is handed to save_learned_pattern.
AddPattern(u, new_pattern, new_category) ==
  /\ clock < MaxClock
  /\ IF new_pattern # ""
     THEN LET existing == ExistingRows(rows, u, new_pattern) IN
          /\ rows' = save_learned_pattern(rows, u, new_pattern, new_category,
                                          nextId, clock + 1)
          /\ clock' = clock + 1
          /\ nextId' = IF existing # {} THEN nextId ELSE nextId + 1
          /\ last' = [NoOp EXCEPT !.op = "add", !.user = u,
                        !.text = new_pattern, !.category = new_category,
                        !.outcome = "success",
                        !.id = IF existing # {} THEN FirstRow(existing).id
                               ELSE nextId,
                        !.after = IF existing # {} THEN "update"
                                  ELSE "insert"]
     ELSE /\ last' = [NoOp EXCEPT !.op = "add", !.user = u,
                        !.text = new_pattern, !.category = new_category,
                        !.outcome = "st.error"]
          /\ UNCHANGED <<rows, clock, nextId>>
  /\ UNCHANGED <<txns, score, ledgerVars, storeVars, callVars, authVars>>

\* delete_pattern(db, pattern_id): True when the row existed.
DeletePattern(pattern_id) ==
  /\ rows' = delete_pattern(rows, pattern_id)
  /\ last' = [NoOp EXCEPT !.op = "delete", !.id = pattern_id,
                !.outcome = IF \E r \in rows : r.id = pattern_id
                            THEN "True" ELSE "False"]
  /\ UNCHANGED <<clock, nextId, txns, score, ledgerVars, storeVars,
                 callVars, authVars>>

\* As Categorize, but a learned pattern that matched is marked as used and
\* its confidence is lowered by a tenth.
Categorize_MarksUse(u, description, amount) ==
  LET ups == get_user_patterns(rows, u)
      res == categorize_transaction(description, amount, ups)
      learned == LearnedMatches(description, ups)
      same == /\ last.op = "categorize" /\ last.user = u
              /\ last.text = description /\ last.amount = amount
  IN
  /\ rows' = IF learned = {} THEN rows
             ELSE LET m == ups[Min(learned)] IN
                  (rows \ {m}) \cup
                    {[m EXCEPT !.times_used = m.times_used + 1,
                               !.confidence = IF m.confidence >= 10
                                              THEN m.confidence - 10 ELSE 0]}
  /\ last' = [NoOp EXCEPT !.op = "categorize", !.user = u,
                !.text = description, !.amount = amount,
                !.category = res[1], !.confidence = res[2],
                !.outcome = "returned",
                !.id = IF last.op = "add" /\ last.after = "insert"
                       THEN last.id ELSE 0,
                !.after = IF last.op = "add" /\ last.after = "insert"
                          THEN "insert"
                          ELSE IF same THEN "same" ELSE "other"]
  /\ UNCHANGED <<clock, nextId, txns, score, ledgerVars, storeVars,
                 callVars, authVars>>

\* One turn of the categorization loop: the user's patterns are read and one
\* transaction is categorized.  Field `after` remembers what the operation
\* before this one was: "insert" when it inserted a pattern (its row is
\* `id`), "same" when it categorized the same transaction for the same user.
Categorize(u, description, amount) ==
  LET res == categorize_transaction(description, amount,
                                    get_user_patterns(rows, u))
      same == /\ last.op = "categorize" /\ last.user = u
              /\ last.text = description /\ last.amount = amount
  IN
  /\ last' = [NoOp EXCEPT !.op = "categorize", !.user = u,
                !.text = description, !.amount = amount,
                !.category = res[1], !.confidence = res[2],
                !.outcome = "returned",
                !.id = IF last.op = "add" /\ last.after = "insert"
                       THEN last.id ELSE 0,
                !.after = IF last.op = "add" /\ last.after = "insert"
                          THEN "insert"
                          ELSE IF same THEN "same" ELSE "other"]
  /\ UNCHANGED <<rows, clock, nextId, txns, score, ledgerVars, storeVars,
                 callVars, authVars>>

\* The browser sessions whose scripts run at the same time, each with its
\* own database session (SessionLocal()).
Sessions == {"s1", "s2"}

\* No call of save_learned_pattern is under way in the session.
NoCall == [pc |-> "idle", category |-> "", existing |-> 0, times_used |-> 0]

\* init_auth_state(): nobody is logged in.
NoSession ==
  [user |-> "None", user_id |-> "None", email |-> "None",
   authenticated |-> FALSE]

\* Nothing has been reported yet.
NoReport ==
  [op |-> "none", outcome |-> "", monthly |-> << >>, debt |-> << >>,
   recurring |-> << >>, metrics |-> << >>]

Init ==
  /\ rows = {}
  /\ nextId = 1
  /\ clock = 0
  /\ last = NoOp
  /\ txns = << >>
  /\ score = 0
  /\ ledger = << >>
  /\ report = NoReport
  /\ statements = {}
  /\ transactions = {}
  /\ nextStatementId = 1
  /\ nextTransactionId = 1
  /\ calls = [s \in Sessions |-> NoCall]
  /\ session = NoSession
  /\ users = {}

Next ==
  \/ \E u \in Users, p \in PatternTexts, c \in TeachCategories :
        AddPattern(u, p, c)
  \/ \E id \in 1..MaxClock : DeletePattern(id)
  \/ \E u \in Users, d \in Descriptions, a \in Amounts : Categorize(u, d, a)

Spec == Init /\ [][Next]_vars

(* ---------------------- the statement that is scored ------------------- *)

\* One transaction is appended to the list of the statement being read.
ExtractTransaction(t) ==
  /\ last.op # "score"
  /\ Len(txns) < MaxTxns
  /\ txns' = Append(txns, t)
  /\ last' = [NoOp EXCEPT !.op = "extract"]
  /\ UNCHANGED <<rows, nextId, clock, score, ledgerVars, storeVars,
                 callVars, authVars>>

\* 'health_score': calculate_score(transactions)
CalculateScore ==
  /\ last.op # "score"
  /\ score' = calculate_score(txns)
  /\ last' = [NoOp EXCEPT !.op = "score"]
  /\ UNCHANGED <<rows, nextId, clock, txns, ledgerVars, storeVars,
                 callVars, authVars>>

\* The next statement is uploaded.
NextStatement ==
  /\ last.op = "score"
  /\ txns' = << >>
  /\ score' = 0
  /\ last' = NoOp
  /\ UNCHANGED <<rows, nextId, clock, ledgerVars, storeVars,
                 callVars, authVars>>

NextScore ==
  \/ \E t \in ScoreTxns : ExtractTransaction(t)
  \/ CalculateScore
  \/ NextStatement

SpecScore == Init /\ [][NextScore]_vars

(* ------------ streamlit_app_v2.py: extract_transactions_from_pdf ------- *)

\* Lines of the text of a statement: a deposit, a debit written with a minus
\* sign, a card purchase, a line without a dollar sign, a line that ends with
\* the running balance, a line whose amount has two decimal points and a
\* rent payment.
L_DEPOSIT == "01/05 STRIPE DEPOSIT $15,000.00"
L_FUNDBOX == "01/06 DAILY ACH FUNDBOX -$450.00"
L_PURCHASE == "01/07 DEBIT CARD PURCHASE $25.00"
L_NO_DOLLAR == "01/08 CHECK 450.00"
L_BALANCE == "01/09 WIRE OUT -$300.00 $1,200.00"
L_TWO_POINTS == "01/10 PAYMENT $1.5.00"
L_RENT == "01/03 ACME CORP RENT $20.00"
Lines == {L_DEPOSIT, L_FUNDBOX, L_PURCHASE, L_NO_DOLLAR, L_BALANCE,
          L_TWO_POINTS, L_RENT}

\* \d
Digits == {"0", "1", "2", "3", "4", "5", "6", "7", "8", "9"}

DigitValue ==
  ("0" :> 0) @@ ("1" :> 1) @@ ("2" :> 2) @@ ("3" :> 3) @@ ("4" :> 4) @@
  ("5" :> 5) @@ ("6" :> 6) @@ ("7" :> 7) @@ ("8" :> 8) @@ ("9" :> 9)

Max(S) == CHOOSE x \in S : \A y \in S : y <= x

\* The str whose characters are cs.
NameOf(cs) == CHOOSE k \in DOMAIN chars : chars[k] = cs

\* The character class [\d{1,2}/)*] of the date expression.
DateClass == Digits \cup {"{", ",", "}", "/", ")", "*"}

\* The length of the match of \d{1,2}/[\d{1,2}/)*]d{0,4} that begins at
\* position i of s, 0 when there is none: two digits are tried before one,
\* and up to four letters d are taken after the character of the class.
DateMatchLen(s, i) ==
  LET try(n) == /\ i + n + 1 <= Len(s)
                /\ \A k \in i..(i + n - 1) : s[k] \in Digits
                /\ s[i + n] = "/"
                /\ s[i + n + 1] \in DateClass
      ds(j) == Max({n \in 0..4 : \A k \in j..(j + n - 1) :
                                    k <= Len(s) /\ s[k] = "d"})
  IN IF try(2) THEN 4 + ds(i + 4)
     ELSE IF try(1) THEN 3 + ds(i + 3)
     ELSE 0

\* re.search(r'(\d{1,2}/[\d{1,2}/)*]d{0,4})', line): the leftmost match.
date_match(s) ==
  LET starts == {i \in 1..Len(s) : DateMatchLen(s, i) > 0} IN
  IF starts = {} THEN [found |-> FALSE, group |-> << >>]
  ELSE [found |-> TRUE,
        group |-> SubSeq(s, Min(starts),
                         Min(starts) + DateMatchLen(s, Min(starts)) - 1)]

\* The character class [,\d.] of the amount expression.
AmountClass == Digits \cup {",", "."}

\* The last position of the match of \$[,\d.]+\.\d{2} that begins at the
\* dollar sign at position i, 0 when there is none: the longest run of the
\* class is taken and given back until a point and two digits end it.
AmountMatchEnd(s, i) ==
  LET run == Max({e \in i..Len(s) :
                     \A k \in (i + 1)..e : s[k] \in AmountClass})
      ends == {k \in (i + 4)..run :
                  s[k - 2] = "." /\ s[k - 1] \in Digits /\ s[k] \in Digits}
  IN IF s[i] = "$" /\ ends # {} THEN Max(ends) ELSE 0

\* re.findall(r'(\$)([,\d.]+\.\d{2})', line): the positions of the dollar
\* signs that begin a match (a match holds no dollar sign, so no two overlap).
AmountStarts(s) == {i \in 1..Len(s) : AmountMatchEnd(s, i) > 0}

\* amounts[-1][1].replace(',', '')
LastAmountText(s) ==
  LET i == Max(AmountStarts(s)) IN
  SelectSeq(SubSeq(s, i + 1, AmountMatchEnd(s, i)), LAMBDA c : c # ",")

\* int() of a sequence of digits (0 for none).
RECURSIVE DigitsValue(_)
DigitsValue(ds) ==
  IF ds = << >> THEN 0
  ELSE 10 * DigitsValue(SubSeq(ds, 1, Len(ds) - 1)) + DigitValue[ds[Len(ds)]]

\* float(t) of a text of digits and points that ends with a point and two
\* digits: a ValueError when a second point precedes them, else the value,
\* kept in hundredths.
FloatIsValid(t) == \A k \in 1..(Len(t) - 3) : t[k] # "."
FloatHundredths(t) ==
  100 * DigitsValue(SubSeq(t, 1, Len(t) - 3))
    + DigitsValue(SubSeq(t, Len(t) - 1, Len(t)))

\* re.sub(r'[\d\s/\$,.-]+', '', line): every digit, blank, slash, dollar
\* sign, comma, point and hyphen is removed. No blank is left for the second
\* re.sub and for strip() to act on.
DescClass == Digits \cup {" ", "/", "$", ",", ".", "-"}
DescOf(s) == SelectSeq(s, LAMBDA c : c \notin DescClass)

\* desc[:50]
Prefix50(d) == SubSeq(d, 1, IF Len(d) < 50 THEN Len(d) ELSE 50)

\* One turn of the loop over the lines (lines 46-58): "skipped" when the line
\* adds nothing, "error" when float() raises, else "appended" with the
\* transaction. The amount carries no sign: the expression for the amount
\* begins at the dollar sign.
parse_line(s) ==
  IF ~(date_match(s).found /\ AmountStarts(s) # {}) \/ Len(DescOf(s)) <= 3
  THEN [outcome |-> "skipped"]
  ELSE IF ~FloatIsValid(LastAmountText(s)) THEN [outcome |-> "error"]
  ELSE [outcome |-> "appended",
        txn |-> [date |-> NameOf(date_match(s).group),
                 description |-> NameOf(Prefix50(DescOf(s))),
                 amount |-> FloatHundredths(LastAmountText(s))]]

\* parse_line, tabulated over the lines.
parsed == [l \in Lines |-> parse_line(chars[l])]

\* transactions = [] at the start of extract_transactions_from_pdf.
OpenStatement ==
  /\ txns' = << >>
  /\ last' = [NoOp EXCEPT !.op = "open"]
  /\ UNCHANGED <<rows, nextId, clock, score, ledgerVars, storeVars,
                 callVars, authVars>>

\* One turn of the loop over the lines. An exception ends the loop: the
\* handler reports it and returns the transactions appended so far.
ParseLine(line) ==
  /\ last.outcome # "error"
  /\ Len(txns) < MaxTxns
  /\ txns' = IF parsed[line].outcome = "appended"
             THEN Append(txns, parsed[line].txn)
             ELSE txns
  /\ last' = [NoOp EXCEPT !.op = "parse", !.text = line,
                          !.outcome = parsed[line].outcome,
                          !.amount = IF parsed[line].outcome = "appended"
                                     THEN parsed[line].txn.amount
                                     ELSE 0]
  /\ UNCHANGED <<rows, nextId, clock, score, ledgerVars, storeVars,
                 callVars, authVars>>

NextLine == \E line \in Lines : ParseLine(line)

NextExtract == OpenStatement \/ NextLine

SpecExtract == Init /\ [][NextExtract]_vars

(* ---------------- streamlit_app.py: the transactions ------------------- *)

\* Records as generate_demo_data appends them. Amounts and balances are whole
\* dollars, confidence is in hundredths, and "None" stands for None.
D_DEC_30 == "2023-12-30"
D_JAN_06 == "2024-01-06"
D_JAN_07 == "2024-01-07"
D_JAN_13 == "2024-01-13"
D_JAN_20 == "2024-01-20"
D_FEB_01 == "2024-02-01"
LedgerDates == {D_DEC_30, D_JAN_06, D_JAN_07, D_JAN_13, D_JAN_20, D_FEB_01}

\* A deposit of true revenue.
T_STRIPE ==
  [date |-> D_DEC_30, description |-> "STRIPE TRANSFER", amount |-> 15000,
   balance |-> 15700, category |-> "Revenue", is_debit |-> FALSE,
   is_true_revenue |-> TRUE, is_debt_payment |-> FALSE,
   debt_type |-> "None", confidence |-> 90]

\* A payment to a lender of merchant cash advances, by day and amount.
McaPayment(date, amount, balance) ==
  [date |-> date, description |-> "FUNDBOX", amount |-> -amount,
   balance |-> balance, category |-> "Debt Repayment - MCA",
   is_debit |-> TRUE, is_true_revenue |-> FALSE, is_debt_payment |-> TRUE,
   debt_type |-> "mca", confidence |-> 95]
T_MCA_06 == McaPayment(D_JAN_06, 450, 1000)
T_MCA_07 == McaPayment(D_JAN_07, 450, 550)
T_MCA_20 == McaPayment(D_JAN_20, 450, 100)

\* A debt payment to the same payee that carries no debt type, on a day that
\* ends with the account overdrawn.
T_UNTYPED_13 ==
  [date |-> D_JAN_13, description |-> "FUNDBOX", amount |-> -300,
   balance |-> -200, category |-> "Debt Repayment", is_debit |-> TRUE,
   is_true_revenue |-> FALSE, is_debt_payment |-> TRUE,
   debt_type |-> "None", confidence |-> 80]

\* A payment to a traditional lender.
T_LOAN ==
  [date |-> D_FEB_01, description |-> "ALLY BANK LOAN PMT", amount |-> -300,
   balance |-> 700, category |-> "Debt Repayment", is_debit |-> TRUE,
   is_true_revenue |-> FALSE, is_debt_payment |-> TRUE,
   debt_type |-> "term_loan", confidence |-> 92]

LedgerTxns ==
  {T_STRIPE, T_MCA_06, T_MCA_07, T_MCA_20, T_UNTYPED_13, T_LOAN}

\* pd.to_datetime of 'YYYY-MM-DD'.
to_datetime(d) ==
  [year |-> DigitsValue(SubSeq(chars[d], 1, 4)),
   month |-> DigitsValue(SubSeq(chars[d], 6, 7)),
   day |-> DigitsValue(SubSeq(chars[d], 9, 10))]

IsLeap(y) == (y % 4 = 0 /\ y % 100 # 0) \/ y % 400 = 0

DaysInMonth(y, m) ==
  IF m = 2 THEN (IF IsLeap(y) THEN 29 ELSE 28)
  ELSE IF m \in {4, 6, 9, 11} THEN 30 ELSE 31

RECURSIVE DaysBeforeMonth(_, _)
DaysBeforeMonth(y, m) ==
  IF m = 1 THEN 0 ELSE DaysBeforeMonth(y, m - 1) + DaysInMonth(y, m - 1)

\* The number of the day in the proleptic Gregorian calendar: the days of
\* Timedelta.days are differences of these.
Ordinal(t) ==
  365 * (t.year - 1) + ((t.year - 1) \div 4) - ((t.year - 1) \div 100)
    + ((t.year - 1) \div 400) + DaysBeforeMonth(t.year, t.month) + t.day

ordinal_of == [d \in LedgerDates |-> Ordinal(to_datetime(d))]

\* The decimal digits of n, padded with zeros to the width w.
RECURSIVE ZeroPad(_, _)
ZeroPad(n, w) ==
  IF w = 0 THEN << >>
  ELSE ZeroPad(n \div 10, w - 1)
         \o <<CHOOSE c \in Digits : DigitValue[c] = n % 10>>

\* .dt.to_period('M').astype(str): 'YYYY-MM'.
month_of ==
  [d \in LedgerDates |->
     NameOf(ZeroPad(to_datetime(d).year, 4) \o <<"-">>
              \o ZeroPad(to_datetime(d).month, 2))]

\* Timestamp.strftime('%Y-%m-%d') of the day with ordinal n.
strftime_of(n) == CHOOSE d \in LedgerDates : ordinal_of[d] = n

\* The order of str: by the code points of the characters.
CodePoints == <<"-", "0", "1", "2", "3", "4", "5", "6", "7", "8", "9">>
CodePoint(c) == CHOOSE i \in 1..Len(CodePoints) : CodePoints[i] = c

RECURSIVE SeqLess(_, _)
SeqLess(a, b) ==
  IF b = << >> THEN FALSE
  ELSE IF a = << >> THEN TRUE
  ELSE IF Head(a) = Head(b) THEN SeqLess(Tail(a), Tail(b))
  ELSE CodePoint(Head(a)) < CodePoint(Head(b))

str_less(a, b) == SeqLess(chars[a], chars[b])

\* sorted(S) of a set of str.
RECURSIVE sorted(_)
sorted(S) ==
  IF S = {} THEN << >>
  ELSE LET m == CHOOSE x \in S : \A y \in S \ {x} : str_less(x, y)
       IN <<m>> \o sorted(S \ {m})

\* Series.sum() of the amounts, and of their absolute values.
RECURSIVE SumOf(_, _)
SumOf(l, field) ==
  IF l = << >> THEN 0 ELSE l[1][field] + SumOf(Tail(l), field)

RECURSIVE SumAbs(_)
SumAbs(l) == IF l = << >> THEN 0 ELSE Abs(l[1].amount) + SumAbs(Tail(l))

\* Series.unique(): the values in the order of their first appearance.
RECURSIVE unique(_)
unique(vals) ==
  IF vals = << >> THEN << >>
  ELSE LET front == unique(SubSeq(vals, 1, Len(vals) - 1))
           v == vals[Len(vals)]
       IN IF \E i \in 1..Len(front) : front[i] = v
          THEN front ELSE Append(front, v)

\* The column of the list l.
Column(l, field) == [i \in 1..Len(l) |-> l[i][field]]

\* Series.sort_values() of numbers, ascending.
RECURSIVE sort_values(_)
sort_values(vals) ==
  IF vals = << >> THEN << >>
  ELSE LET i == CHOOSE j \in 1..Len(vals) :
                   \A k \in 1..Len(vals) : vals[j] <= vals[k]
       IN <<vals[i]>>
            \o sort_values(SubSeq(vals, 1, i - 1)
                             \o SubSeq(vals, i + 1, Len(vals)))

\* Series.diff().dropna(): the differences of consecutive values.
diff(vals) == [i \in 1..(Len(vals) - 1) |-> vals[i + 1] - vals[i]]

RECURSIVE SumSeq(_)
SumSeq(vals) == IF vals = << >> THEN 0 ELSE Head(vals) + SumSeq(Tail(vals))

\* A quotient that is not carried out: means and percentages are kept as
\* numerator and denominator (den > 0).
Quotient(num, den) == [num |-> num, den |-> den]

(* ---------------- streamlit_app.py: calculate_monthly_summary ---------- *)

\* The entry of one month. Status marks and money are kept before formatting.
MonthEntry(l, month) ==
  LET month_df == SelectSeq(l, LAMBDA t : month_of[t.date] = month)
      deposits == SelectSeq(month_df, LAMBDA t : t.amount > 0)
      withdrawals == SelectSeq(month_df, LAMBDA t : t.amount < 0)
      true_rev == SelectSeq(month_df, LAMBDA t : t.is_true_revenue)
      mca == SelectSeq(month_df, LAMBDA t : t.debt_type = "mca")
      total_true_revenue == SumOf(true_rev, "amount")
      total_mca == Abs(SumOf(mca, "amount"))
      balances == Column(month_df, "balance")
  IN [Month |-> month,
      Starting_Balance |-> IF balances # << >> THEN balances[1] ELSE 0,
      Num_Deposits |-> Len(deposits),
      Total_Deposits |-> SumOf(deposits, "amount"),
      True_Revenue |-> total_true_revenue,
      Num_Withdrawals |-> Len(withdrawals),
      Total_Withdrawals |-> Abs(SumOf(withdrawals, "amount")),
      MCA_Debits |-> total_mca,
      Holdback |-> IF total_true_revenue > 0
                   THEN Quotient(100 * total_mca, total_true_revenue)
                   ELSE Quotient(0, 1),
      Ending_Balance |-> IF balances # << >>
                         THEN balances[Len(balances)] ELSE 0,
      Avg_Balance |-> IF balances # << >>
                      THEN Quotient(SumSeq(balances), Len(balances))
                      ELSE Quotient(0, 1),
      Neg_Balance_Days |-> Len(SelectSeq(balances, LAMBDA b : b < 0))]

\* calculate_monthly_summary(pd.DataFrame(l)). The frame of an empty list has
\* no columns, and df['date'] raises KeyError.
calculate_monthly_summary(l) ==
  IF l = << >> THEN [outcome |-> "KeyError", rows |-> << >>]
  ELSE LET months == sorted({month_of[l[i].date] : i \in 1..Len(l)})
       IN [outcome |-> "ok",
           rows |-> [i \in 1..Len(months) |-> MonthEntry(l, months[i])]]

(* ---------------- streamlit_app.py: calculate_debt_summary ------------- *)

\* The frequency of payments on the sorted days, and the number of payments
\* a month that goes with it.
Frequency(dates) ==
  IF Len(dates) >= 2
  THEN IF SumSeq(diff(dates)) <= 2 * (Len(dates) - 1) THEN "daily"
       ELSE IF SumSeq(diff(dates)) <= 9 * (Len(dates) - 1) THEN "weekly"
       ELSE "monthly"
  ELSE "monthly"

PerMonth(frequency) ==
  IF frequency = "daily" THEN 22 ELSE IF frequency = "weekly" THEN 4 ELSE 1

\* The Group of a lender whose first row has this debt type.
GroupOf(debt_type) ==
  IF debt_type = "mca" THEN "Merchant Cash Advance" ELSE "Term Loan"

\* The entry of one lender, from the rows lender_df, the days of the
\* payments and the debt type that decides the group.
LenderEntry(lender, lender_df, dates, debt_type) ==
  [Lender |-> lender,
   Group |-> GroupOf(debt_type),
   First_Date |-> strftime_of(dates[1]),
   Last_Date |-> strftime_of(dates[Len(dates)]),
   Active |-> "ok",
   Count |-> Len(lender_df),
   Total_Amount |-> SumAbs(lender_df),
   Avg_Amount |-> Quotient(SumAbs(lender_df), Len(lender_df)),
   Frequency |-> Frequency(dates),
   Est_Monthly |-> Quotient(PerMonth(Frequency(dates)) * SumAbs(lender_df),
                            Len(lender_df))]

\* The rows with a debt payment, and those of one lender.
DebtRows(l) == SelectSeq(l, LAMBDA t : t.is_debt_payment)
LenderRows(l, lender) ==
  SelectSeq(DebtRows(l), LAMBDA t : t.description = lender)
PaymentDays(lender_df) ==
  [i \in 1..Len(lender_df) |-> ordinal_of[lender_df[i].date]]

\* As calculate_debt_summary, but a lender with one payment is left out.
calculate_debt_summary_SkipSingles(l) ==
  IF l = << >> THEN [outcome |-> "KeyError", rows |-> << >>]
  ELSE LET lenders == SelectSeq(unique(Column(DebtRows(l), "description")),
                                LAMBDA x : Len(LenderRows(l, x)) >= 2)
       IN [outcome |-> "ok",
           rows |-> [i \in 1..Len(lenders) |->
                       LenderEntry(lenders[i], LenderRows(l, lenders[i]),
                                   sort_values(PaymentDays(
                                     LenderRows(l, lenders[i]))),
                                   LenderRows(l, lenders[i])[1].debt_type)]]

\* As calculate_debt_summary, but the days are taken in the order of the rows.
calculate_debt_summary_Unsorted(l) ==
  IF l = << >> THEN [outcome |-> "KeyError", rows |-> << >>]
  ELSE LET lenders == unique(Column(DebtRows(l), "description"))
       IN [outcome |-> "ok",
           rows |-> [i \in 1..Len(lenders) |->
                       LenderEntry(lenders[i], LenderRows(l, lenders[i]),
                                   PaymentDays(LenderRows(l, lenders[i])),
                                   LenderRows(l, lenders[i])[1].debt_type)]]

\* As calculate_debt_summary, but the last row of a lender decides the group.
calculate_debt_summary_LastType(l) ==
  IF l = << >> THEN [outcome |-> "KeyError", rows |-> << >>]
  ELSE LET lenders == unique(Column(DebtRows(l), "description"))
       IN [outcome |-> "ok",
           rows |-> [i \in 1..Len(lenders) |->
                       LenderEntry(lenders[i], LenderRows(l, lenders[i]),
                                   sort_values(PaymentDays(
                                     LenderRows(l, lenders[i]))),
                                   LenderRows(l, lenders[i])
                                     [Len(LenderRows(l, lenders[i]))]
                                     .debt_type)]]

\* calculate_debt_summary(pd.DataFrame(l)): one entry for every lender, in
\* the order of first appearance; no entry when there is no debt payment.
\* The frame of an empty list has no columns, and df['is_debt_payment']
\* raises KeyError.
calculate_debt_summary(l) ==
  IF l = << >> THEN [outcome |-> "KeyError", rows |-> << >>]
  ELSE LET lenders == unique(Column(DebtRows(l), "description"))
       IN [outcome |-> "ok",
           rows |-> [i \in 1..Len(lenders) |->
                       LenderEntry(lenders[i], LenderRows(l, lenders[i]),
                                   sort_values(PaymentDays(
                                     LenderRows(l, lenders[i]))),
                                   LenderRows(l, lenders[i])[1].debt_type)]]

(* ---------------- streamlit_app.py: recurring transactions ------------- *)

\* The rows of one description.
GroupRows(l, merchant) == SelectSeq(l, LAMBDA t : t.description = merchant)

\* min and max of a column of str.
StrMin(S) == CHOOSE x \in S : \A y \in S \ {x} : str_less(x, y)
StrMax(S) == CHOOSE x \in S : \A y \in S \ {x} : str_less(y, x)

\* df.groupby('description').agg(...), filtered by Count >= 3.
RecurringRows(l) ==
  {[Merchant |-> m,
    Count |-> Len(GroupRows(l, m)),
    Total |-> Abs(SumOf(GroupRows(l, m), "amount")),
    Avg_Amount |-> Quotient(Abs(SumOf(GroupRows(l, m), "amount")),
                            Len(GroupRows(l, m))),
    First_Date |-> StrMin({GroupRows(l, m)[i].date :
                             i \in 1..Len(GroupRows(l, m))}),
    Last_Date |-> StrMax({GroupRows(l, m)[i].date :
                            i \in 1..Len(GroupRows(l, m))}),
    Category |-> GroupRows(l, m)[1].category] :
   m \in {x \in {l[i].description : i \in 1..Len(l)} :
            Len(GroupRows(l, x)) >= 3}}

\* sort_values('Count', ascending=False).head(15): the order of rows with the
\* same Count is not determined.
RecurringTables(l) ==
  {SubSeq(f, 1, IF Len(f) < 15 THEN Len(f) ELSE 15) :
     f \in {g \in [1..Cardinality(RecurringRows(l)) -> RecurringRows(l)] :
              /\ \A i, j \in DOMAIN g : i # j => g[i] # g[j]
              /\ \A i, j \in DOMAIN g : i < j => g[i].Count >= g[j].Count}}

(* ---------------- streamlit_app.py: calculate_scorecard ---------------- *)

Metric(type, metric, value, status) ==
  [Type |-> type, Metric |-> metric, Value |-> value, Status |-> status]

\* balances[-30:]
Last30(vals) ==
  SubSeq(vals, IF Len(vals) > 30 THEN Len(vals) - 29 ELSE 1, Len(vals))

SeqRange(vals) == {vals[i] : i \in 1..Len(vals)}

\* Holdback percentage of the scorecard: 0 when there is no true revenue.
ScorecardHoldback(l) ==
  LET true_revenue == SumOf(SelectSeq(l, LAMBDA t : t.is_true_revenue),
                            "amount")
      mca_total == SumOf(SelectSeq(l, LAMBDA t : t.debt_type = "mca"),
                         "amount")
  IN IF true_revenue > 0 THEN Quotient(100 * Abs(mca_total), true_revenue)
     ELSE Quotient(0, 1)

\* calculate_scorecard(pd.DataFrame(l)); status "ok" is the check mark and
\* "warn" the warning sign. The frame of an empty list has no columns, and
\* df['balance'] raises KeyError.
calculate_scorecard(l) ==
  IF l = << >> THEN [outcome |-> "KeyError", rows |-> << >>]
  ELSE
  LET balances == Column(l, "balance")
      true_revenue == SelectSeq(l, LAMBDA t : t.is_true_revenue)
      mca_payments == SelectSeq(l, LAMBDA t : t.debt_type = "mca")
      holdback == ScorecardHoldback(l)
  IN [outcome |-> "ok",
      rows |->
        << Metric("balance", "Latest Balance",
                  Quotient(balances[Len(balances)], 1), "ok"),
           Metric("balance", "Balance Average (30 days)",
                  Quotient(SumSeq(Last30(balances)), Len(Last30(balances))),
                  "ok"),
           Metric("balance", "Balance Minimum (30 days)",
                  Quotient(Min(SeqRange(Last30(balances))), 1),
                  IF Min(SeqRange(Last30(balances))) > 0
                  THEN "ok" ELSE "warn"),
           Metric("balance", "Balance Maximum (30 days)",
                  Quotient(Max(SeqRange(Last30(balances))), 1), "ok"),
           Metric("data_quality", "Data Volume", Quotient(Len(l), 1), "ok"),
           Metric("data_quality", "True Revenue (Total)",
                  Quotient(SumOf(true_revenue, "amount"), 1), "ok"),
           Metric("data_quality", "Avg Confidence",
                  Quotient(SumOf(l, "confidence"), Len(l)), "ok") >>
        \o (IF Len(mca_payments) > 0
            THEN << Metric("debt", "MCA Payments (Total)",
                           Quotient(Abs(SumOf(mca_payments, "amount")), 1),
                           "warn"),
                    Metric("debt", "Holdback %", holdback,
                           IF holdback.num < 15 * holdback.den
                           THEN "ok" ELSE "warn") >>
            ELSE << >>)]

(* ---------------------- streamlit_app.py: main ------------------------- *)

\* generate_demo_data: transactions.append of one record.
GenerateTransaction(t) ==
  /\ report = NoReport
  /\ Len(ledger) < MaxLedger
  /\ ledger' = Append(ledger, t)
  /\ UNCHANGED <<report, rows, nextId, clock, last, txns, score, storeVars,
                 callVars, authVars>>

\* Page "Bank & Debt Summary": the monthly summary, the debt summary and the
\* table of recurring transactions. An exception ends the run of the script.
SummaryPage ==
  /\ report = NoReport
  /\ IF calculate_monthly_summary(ledger).outcome # "ok"
     THEN report' = [NoReport EXCEPT
                       !.op = "summary",
                       !.outcome = calculate_monthly_summary(ledger).outcome]
     ELSE \E table \in RecurringTables(ledger) :
            report' = [NoReport EXCEPT
                         !.op = "summary",
                         !.outcome = "ok",
                         !.monthly = calculate_monthly_summary(ledger).rows,
                         !.debt = calculate_debt_summary(ledger).rows,
                         !.recurring = table]
  /\ UNCHANGED <<ledger, rows, nextId, clock, last, txns, score, storeVars,
                 callVars, authVars>>

\* Page "Scorecard".
ScorecardPage ==
  /\ report = NoReport
  /\ report' = [NoReport EXCEPT
                  !.op = "scorecard",
                  !.outcome = calculate_scorecard(ledger).outcome,
                  !.metrics = calculate_scorecard(ledger).rows]
  /\ UNCHANGED <<ledger, rows, nextId, clock, last, txns, score, storeVars,
                 callVars, authVars>>

\* The next run of the script: the data are generated anew.
Rerun ==
  /\ report # NoReport
  /\ ledger' = << >>
  /\ report' = NoReport
  /\ UNCHANGED <<rows, nextId, clock, last, txns, score, storeVars,
                 callVars, authVars>>

NextRecord == \E t \in LedgerTxns : GenerateTransaction(t)

NextLedger == NextRecord \/ SummaryPage \/ ScorecardPage \/ Rerun

SpecLedger == Init /\ [][NextLedger]_vars

(* ------------- database.py: bank_statements and transactions ---------- *)

\* The texts of the statements that are uploaded, as lists of lines (with
\* amounts whose squares stay within the integers of the model).
Uploads == {<<L_RENT>>, <<L_PURCHASE, L_RENT>>, <<L_NO_DOLLAR>>}

\* Categories a correction is made to.
CorrectionCategories == {"PAYROLL", "TAX"}

\* extract_transactions_from_pdf on the lines of a text: the loop of
\* ParseLine, run to its end or to the first exception.
RECURSIVE extract_transactions_from_pdf(_)
extract_transactions_from_pdf(lines) ==
  IF lines = << >> THEN << >>
  ELSE IF parsed[Head(lines)].outcome = "error" THEN << >>
  ELSE IF parsed[Head(lines)].outcome = "appended"
       THEN <<parsed[Head(lines)].txn>>
              \o extract_transactions_from_pdf(Tail(lines))
  ELSE extract_transactions_from_pdf(Tail(lines))

\* The categorization loop (lines 189-192): every transaction gets the
\* category and the confidence of categorize_transaction.
CategorizeAll(list, user_patterns) ==
  [i \in 1..Len(list) |->
     [date |-> list[i].date,
      description |-> list[i].description,
      amount |-> list[i].amount,
      category |-> categorize_transaction(list[i].description,
                                          list[i].amount, user_patterns)[1],
      category_confidence |->
        categorize_transaction(list[i].description, list[i].amount,
                               user_patterns)[2]]]

\* As create_statement, but total_transactions is the default of the column
\* (statement_data without the key "total_transactions").
create_statement_DefaultCount(user_id, list, id, now) ==
  [id |-> id, user_id |-> user_id,
   total_transactions |-> 0,
   total_revenue |-> SumAmount(SelectSeq(list, LAMBDA t : t.amount > 0)),
   total_expenses |->
     Abs(SumAmount(SelectSeq(list, LAMBDA t : t.amount < 0))),
   net_cash_flow |-> SumAmount(list),
   health_score |-> calculate_score(list),
   raw_data |-> list,
   upload_date |-> now]

\* create_statement(db, user_id, filename, statement_data)
create_statement(user_id, list, id, now) ==
  [id |-> id, user_id |-> user_id,
   total_transactions |-> Len(list),
   total_revenue |-> SumAmount(SelectSeq(list, LAMBDA t : t.amount > 0)),
   total_expenses |->
     Abs(SumAmount(SelectSeq(list, LAMBDA t : t.amount < 0))),
   net_cash_flow |-> SumAmount(list),
   health_score |-> calculate_score(list),
   raw_data |-> list,
   upload_date |-> now]

\* add_transactions_bulk(db, statement_id, transactions): the rows added,
\* with ids from first_id on.
add_transactions_bulk(statement_id, list, first_id, now) ==
  {[id |-> first_id + i - 1, statement_id |-> statement_id,
    date |-> list[i].date, description |-> list[i].description,
    amount |-> list[i].amount, category |-> list[i].category,
    category_confidence |-> list[i].category_confidence,
    user_corrected |-> FALSE,
    created_at |-> now, updated_at |-> now] : i \in 1..Len(list)}

\* As update_transaction_category, but the confidence is set to the
\* confidence of the fallback.
update_transaction_category_Rescored(tbl, transaction_id, category, now) ==
  {IF t.id = transaction_id
   THEN [t EXCEPT !.category = category, !.user_corrected = TRUE,
                  !.category_confidence = FallbackConfidence,
                  !.updated_at = now]
   ELSE t : t \in tbl}

\* update_transaction_category(db, transaction_id, category): the row with
\* this id, if there is one, gets the category and is marked as corrected.
update_transaction_category(tbl, transaction_id, category, now) ==
  {IF t.id = transaction_id
   THEN [t EXCEPT !.category = category, !.user_corrected = TRUE,
                  !.updated_at = now]
   ELSE t : t \in tbl}

\* The upload of a statement (lines 180-230): extraction, categorization with
\* the patterns of the user, then the statement and its transactions are
\* stored. Nothing is stored when no transaction was found.
UploadStatement(u, lines) ==
  /\ clock < MaxClock
  /\ LET list == CategorizeAll(extract_transactions_from_pdf(lines),
                               get_user_patterns(rows, u))
     IN IF list # << >>
        THEN /\ statements' = statements \cup
                  {create_statement(u, list, nextStatementId, clock + 1)}
             /\ transactions' = transactions \cup
                  add_transactions_bulk(nextStatementId, list,
                                        nextTransactionId, clock + 1)
             /\ nextStatementId' = nextStatementId + 1
             /\ nextTransactionId' = nextTransactionId + Len(list)
             /\ clock' = clock + 1
             /\ last' = [NoOp EXCEPT !.op = "upload", !.user = u,
                                     !.outcome = "saved",
                                     !.id = nextStatementId]
        ELSE /\ last' = [NoOp EXCEPT !.op = "upload", !.user = u,
                                     !.outcome = "st.warning"]
             /\ UNCHANGED <<storeVars, clock>>
  /\ UNCHANGED <<rows, nextId, txns, score, ledgerVars, callVars, authVars>>

\* update_transaction_category(db, transaction_id, category)
UpdateTransactionCategory(transaction_id, category) ==
  /\ clock < MaxClock
  /\ transactions' = update_transaction_category(transactions, transaction_id,
                                                 category, clock + 1)
  /\ clock' = IF \E t \in transactions : t.id = transaction_id
              THEN clock + 1 ELSE clock
  /\ last' = [NoOp EXCEPT !.op = "correct", !.id = transaction_id,
                          !.category = category,
                          !.outcome =
                            IF \E t \in transactions : t.id = transaction_id
                            THEN "updated" ELSE "None"]
  /\ UNCHANGED <<statements, nextStatementId, nextTransactionId, rows,
                 nextId, txns, score, ledgerVars, callVars, authVars>>

\* delete_statement(db, statement_id): the statement goes, and with it its
\* transactions (cascade="all, delete-orphan").
DeleteStatement(statement_id) ==
  /\ statements' = {st \in statements : st.id # statement_id}
  /\ transactions' =
       IF \E st \in statements : st.id = statement_id
       THEN {t \in transactions : t.statement_id # statement_id}
       ELSE transactions
  /\ last' = [NoOp EXCEPT !.op = "delete_statement", !.id = statement_id,
                          !.outcome =
                            IF \E st \in statements : st.id = statement_id
                            THEN "True" ELSE "False"]
  /\ UNCHANGED <<nextStatementId, nextTransactionId, clock, rows, nextId,
                 txns, score, ledgerVars, callVars, authVars>>

NextUpload == \E u \in Users : \E lines \in Uploads : UploadStatement(u, lines)

NextCorrection ==
  \E id \in 1..(2 * MaxClock) : \E c \in CorrectionCategories :
     UpdateTransactionCategory(id, c)

NextDeleteStatement == \E id \in 1..MaxClock : DeleteStatement(id)

NextTeach == \E u \in Users : \E c \in TeachCategories : AddPattern(u, P_acme, c)

NextStore == NextUpload \/ NextCorrection \/ NextDeleteStatement \/ NextTeach

SpecStore == Init /\ [][NextStore]_vars

(* ------------- database.py: save_learned_pattern, step by step --------- *)

\* The user and the text that the concurrent calls teach.
RaceUser == "u1"
RacePattern == P_ACME_CORP

\* .first() of the query of save_learned_pattern: None (id 0) when no row
\* matches, else one of the rows that match; the query has no ORDER BY.
first_existing(tbl, user_id, pattern) ==
  IF ExistingRows(tbl, user_id, pattern) = {}
  THEN {[id |-> 0, times_used |-> 0]}
  ELSE {[id |-> r.id, times_used |-> r.times_used] :
          r \in ExistingRows(tbl, user_id, pattern)}

\* Lines 265-268: the session reads the row for the text, if any. It sees
\* what has been committed.
LookupPattern(s, category) ==
  /\ calls[s].pc = "idle"
  /\ clock + Cardinality({x \in Sessions : calls[x].pc = "write"}) < MaxClock
  /\ \E e \in first_existing(rows, RaceUser, RacePattern) :
        calls' = [calls EXCEPT ![s] = [pc |-> "write", category |-> category,
                                       existing |-> e.id,
                                       times_used |-> e.times_used]]
  /\ UNCHANGED <<rows, nextId, clock, last, txns, score, ledgerVars,
                 storeVars, authVars>>

\* Lines 270-285: the row that was read gets the counter that was read plus
\* one, or a row is inserted when none was read; then commit.
WritePattern(s) ==
  /\ calls[s].pc = "write"
  /\ IF calls[s].existing # 0
     THEN /\ rows' = {IF r.id = calls[s].existing
                      THEN [r EXCEPT !.times_used = calls[s].times_used + 1,
                                     !.updated_at = clock + 1]
                      ELSE r : r \in rows}
          /\ UNCHANGED nextId
     ELSE /\ rows' = rows \cup
                {[id |-> nextId, user_id |-> RaceUser,
                  pattern |-> RacePattern, category |-> calls[s].category,
                  times_used |-> ColumnDefaultTimesUsed,
                  confidence |-> ColumnDefaultConfidence,
                  created_at |-> clock + 1, updated_at |-> clock + 1]}
          /\ nextId' = nextId + 1
  /\ clock' = clock + 1
  /\ calls' = [calls EXCEPT ![s].pc = "done"]
  /\ last' = [NoOp EXCEPT !.op = "add", !.user = RaceUser,
                          !.text = RacePattern,
                          !.category = calls[s].category,
                          !.outcome = "success",
                          !.id = IF calls[s].existing # 0
                                 THEN calls[s].existing ELSE nextId,
                          !.after = IF calls[s].existing # 0
                                    THEN "update" ELSE "insert"]
  /\ UNCHANGED <<txns, score, ledgerVars, storeVars, authVars>>

\* The handler ends (st.rerun()): the session can teach again.
ReturnFromSave(s) ==
  /\ calls[s].pc = "done"
  /\ calls' = [calls EXCEPT ![s] = NoCall]
  /\ UNCHANGED <<rows, nextId, clock, last, txns, score, ledgerVars,
                 storeVars, authVars>>

NextLookup ==
  \E s \in Sessions : \E c \in TeachCategories : LookupPattern(s, c)

NextWrite == \E s \in Sessions : WritePattern(s)

NextReturn == \E s \in Sessions : ReturnFromSave(s)

NextRace == NextLookup \/ NextWrite \/ NextReturn

SpecRace == Init /\ [][NextRace]_vars

(* ------------------------------ auth.py -------------------------------- *)

\* The users the authentication provider knows (response.user).
AuthUsers ==
  {[id |-> "u1", email |-> "demo@example.com"],
   [id |-> "u2", email |-> "owner@example.com"]}

\* What the text inputs of the forms hold.
Emails == {"", "demo@example.com", "owner@example.com"}
Passwords == {"", "abc", "demo123456"}

\* What a call of the provider does: it raises (with a message that names
\* the reason, or another one), or it returns a response without a user,
\* or a response with a user.
SignInResponses ==
  {[kind |-> "raise", message |-> "Invalid login credentials"],
   [kind |-> "raise", message |-> "Connection refused"],
   [kind |-> "none"]}
    \cup {[kind |-> "user", user |-> u] : u \in AuthUsers}
SignUpResponses ==
  {[kind |-> "raise", message |-> "User already registered"],
   [kind |-> "raise", message |-> "Connection refused"],
   [kind |-> "none"]}
    \cup {[kind |-> "user", user |-> u] : u \in AuthUsers}

\* Lines 43-46 and 78-81: the session state takes the user of the response.
SessionOf(u) ==
  [user |-> u.id, user_id |-> u.id, email |-> u.email,
   authenticated |-> TRUE]

\* user_exists(db, user_id)
user_exists(tbl, user_id) == \E r \in tbl : r.id = user_id

\* create_user(db, user_id, email): "IntegrityError" when the primary key or
\* the unique email is in the table already, else the table with the row.
create_user(tbl, user_id, email) ==
  IF \E r \in tbl : r.id = user_id \/ r.email = email
  THEN [outcome |-> "IntegrityError", table |-> tbl]
  ELSE [outcome |-> "ok",
        table |-> tbl \cup {[id |-> user_id, email |-> email]}]

\* login(email, password), with the response of the provider and whether the
\* database can be reached: the result, the session state and table users
\* after the call.
login(state, tbl, response, db_up) ==
  IF response.kind = "raise"
  THEN [result |-> "False",
        message |-> IF response.message = "Invalid login credentials"
                    THEN "Invalid email or password"
                    ELSE "Login failed: error",
        state |-> state, table |-> tbl]
  ELSE IF response.kind = "none"
  THEN [result |-> "False", message |-> "Login failed",
        state |-> state, table |-> tbl]
  ELSE IF ~db_up
  THEN [result |-> "False", message |-> "Login failed: error",
        state |-> SessionOf(response.user), table |-> tbl]
  ELSE IF user_exists(tbl, response.user.id)
  THEN [result |-> "True", message |-> "Login successful!",
        state |-> SessionOf(response.user), table |-> tbl]
  ELSE IF create_user(tbl, response.user.id, response.user.email).outcome
            = "ok"
  THEN [result |-> "True", message |-> "Login successful!",
        state |-> SessionOf(response.user),
        table |-> create_user(tbl, response.user.id,
                              response.user.email).table]
  ELSE [result |-> "False", message |-> "Login failed: error",
        state |-> SessionOf(response.user), table |-> tbl]

\* signup(email, password, confirm_password), likewise. The message of an
\* IntegrityError holds the words "already exists".
signup(state, tbl, password, confirm_password, response, db_up) ==
  IF password # confirm_password
  THEN [result |-> "False", message |-> "Passwords do not match",
        state |-> state, table |-> tbl]
  ELSE IF Len(chars[password]) < 6
  THEN [result |-> "False",
        message |-> "Password must be at least 6 characters",
        state |-> state, table |-> tbl]
  ELSE IF response.kind = "raise"
  THEN [result |-> "False",
        message |-> IF response.message = "User already registered"
                    THEN "Email already registered"
                    ELSE "Signup failed: error",
        state |-> state, table |-> tbl]
  ELSE IF response.kind = "none"
  THEN [result |-> "False", message |-> "Signup failed",
        state |-> state, table |-> tbl]
  ELSE IF ~db_up
  THEN [result |-> "False", message |-> "Signup failed: error",
        state |-> SessionOf(response.user), table |-> tbl]
  ELSE IF create_user(tbl, response.user.id, response.user.email).outcome
            = "ok"
  THEN [result |-> "True", message |-> "Account created successfully!",
        state |-> SessionOf(response.user),
        table |-> create_user(tbl, response.user.id,
                              response.user.email).table]
  ELSE [result |-> "False", message |-> "Email already registered",
        state |-> SessionOf(response.user), table |-> tbl]

\* logout(), with whether the provider's sign_out raises.
logout(state, raises) ==
  IF raises
  THEN [result |-> "False", message |-> "Logout failed: error",
        state |-> state]
  ELSE [result |-> "True", message |-> "Logged out successfully",
        state |-> NoSession]

\* The button "Log In" of the page shown while nobody is authenticated.
LogIn(login_email, login_password, response, db_up) ==
  LET r == login(session, users, response, db_up) IN
  /\ ~session.authenticated
  /\ IF login_email # "" /\ login_password # ""
     THEN /\ session' = r.state
          /\ users' = r.table
          /\ last' = [NoOp EXCEPT !.op = "login", !.text = login_email,
                        !.outcome = r.result, !.category = r.message]
     ELSE /\ UNCHANGED <<session, users>>
          /\ last' = [NoOp EXCEPT !.op = "login_form",
                        !.text = login_email, !.outcome = "error"]
  /\ UNCHANGED <<rows, nextId, clock, txns, score, ledgerVars, storeVars,
                 callVars>>

\* The button "Sign Up" of the same page.
SignUp(signup_email, signup_password, signup_password_confirm, response, db_up) ==
  LET r == signup(session, users, signup_password, signup_password_confirm,
                  response, db_up) IN
  /\ ~session.authenticated
  /\ IF signup_email # "" /\ signup_password # ""
          /\ signup_password_confirm # ""
     THEN /\ session' = r.state
          /\ users' = r.table
          /\ last' = [NoOp EXCEPT !.op = "signup", !.text = signup_email,
                        !.outcome = r.result, !.category = r.message]
     ELSE /\ UNCHANGED <<session, users>>
          /\ last' = [NoOp EXCEPT !.op = "signup_form",
                        !.text = signup_email, !.outcome = "error"]
  /\ UNCHANGED <<rows, nextId, clock, txns, score, ledgerVars, storeVars,
                 callVars>>

\* The button "Logout" of the application, shown once authenticated.
LogOut(raises) ==
  LET r == logout(session, raises) IN
  /\ session.authenticated
  /\ session' = r.state
  /\ last' = [NoOp EXCEPT !.op = "logout", !.outcome = r.result,
                !.category = r.message]
  /\ UNCHANGED <<rows, nextId, clock, txns, score, ledgerVars, storeVars,
                 callVars, users>>

NextLogIn ==
  \E e \in Emails, p \in Passwords, response \in SignInResponses,
     db_up \in BOOLEAN : LogIn(e, p, response, db_up)

NextSignUp ==
  \E e \in Emails, p \in Passwords, c \in Passwords,
     response \in SignUpResponses, db_up \in BOOLEAN :
       SignUp(e, p, c, response, db_up)

NextLogOut == \E raises \in BOOLEAN : LogOut(raises)

NextAuth == NextLogIn \/ NextSignUp \/ NextLogOut

SpecAuth == Init /\ [][NextAuth]_vars

(* ------------------------- the claims: registry ------------------------ *)

\* The rows of the user of the last operation whose pattern matches the text
\* of the last operation, as categorize_transaction matches them.
MatchingRows ==
  {r \in rows : r.user_id = last.user /\ pattern_in_desc[r.pattern, last.text]}

Categorized == last.op = "categorize"

\* C1: after any sequence of teach and delete actions, every categorization
\* (of any description, the empty one included, and any amount) returns a
\* category that is a key of CATEGORIES.
C1_CategoryInEnumeration ==
  Categorized => (last.outcome = "returned" /\ last.category \in CategoryKeys)

\* The empty description is categorized after a pattern was taught and
\* another one deleted.
C1_Witness ==
  /\ Categorized /\ last.text = D_EMPTY
  /\ rows # {} /\ nextId > 1 + Cardinality(rows)

\* C2: when at least one learned pattern matches the description, the
\* category returned is the category of a matching learned pattern, whatever
\* default keywords the description contains.
C2_LearnedBeforeDefault ==
  (Categorized /\ MatchingRows # {}) =>
     \E r \in MatchingRows : last.category = r.category

\* A description that holds the default keyword "rent" is given the category
\* of a learned pattern, not RENT.
C2_Witness ==
  /\ Categorized /\ MatchingRows # {}
  /\ DefaultMatchesOf[last.text] # {}
  /\ CATEGORIES[Min(DefaultMatchesOf[last.text])].name # last.category

\* C3: the categorization that directly follows the insertion of a new
\* pattern p with category c, for the same user and a description that
\* contains p and is matched by no earlier learned pattern, returns c.
C3_TeachVisibleToNext ==
  (Categorized /\ last.after = "insert") =>
     \A r \in rows :
        (/\ r.id = last.id
         /\ r.user_id = last.user
         /\ str_in(chars[r.pattern], chars[last.text])
         /\ MatchingRows = {r})
        => last.category = r.category

\* Such a categorization, on a description that a default keyword matches
\* too, while the registry holds rows of another user as well.
C3_Witness ==
  /\ Categorized /\ last.after = "insert"
  /\ \E r \in rows :
        /\ r.id = last.id /\ r.user_id = last.user
        /\ str_in(chars[r.pattern], chars[last.text])
        /\ MatchingRows = {r}
        /\ last.category = r.category
        /\ CATEGORIES[Min(DefaultMatchesOf[D_ACME_RENT])].name # r.category
  /\ last.text = D_ACME_RENT
  /\ \E q \in rows : q.user_id # last.user

\* C4 as claimed: a learned pattern has confidence 0.80 and a description it
\* matches is categorized with confidence 0.80.
C4_Original ==
  /\ \A r \in rows : r.confidence = 80
  /\ (Categorized /\ MatchingRows # {}) => last.confidence = 80

\* C4 amended: a learned pattern has confidence 1.0, the default of column
\* LearnedPattern.confidence, and a description it matches is categorized
\* with confidence 1.0 ("ACME CORP" taught as RENT, then "ACME CORP PROPERTY
\* 9921" categorized, gives (RENT, 1.0)).
C4_LearnedConfidenceIsOne ==
  /\ \A r \in rows : r.confidence = 100
  /\ (Categorized /\ MatchingRows # {}) => last.confidence = 100

\* The example of the claim: "ACME CORP" is RENT, and "ACME CORP PROPERTY
\* 9921" has just been categorized as RENT.
C4_Witness ==
  /\ Categorized /\ last.after = "insert"
  /\ last.text = D_ACME_PROPERTY
  /\ \E r \in rows : /\ r.id = last.id /\ r.user_id = last.user
                     /\ r.pattern = P_ACME_CORP /\ r.category = "RENT"
                     /\ MatchingRows = {r}
  /\ last.category = "RENT"

\* No two rows hold the same text for the same user.
OnePerUserAndText ==
  \A r, q \in rows : (r.user_id = q.user_id /\ r.pattern = q.pattern) => r = q

\* A successful add of a text the user already has changes that row alone:
\* times_used grows by 1, updated_at grows, everything else is kept.
RelearnStep ==
  \A r \in rows :
     (/\ last'.op = "add" /\ last'.outcome = "success"
      /\ r.user_id = last'.user /\ r.pattern = last'.text)
     => \E q \in rows' :
           /\ q = [r EXCEPT !.times_used = r.times_used + 1,
                            !.updated_at = q.updated_at]
           /\ q.updated_at > r.updated_at
           /\ rows' \ {q} = rows \ {r}

\* C5: there is at most one learned entry per (user, text), and re-learning
\* an existing text increments its times_used by exactly 1, refreshes
\* updated_at and keeps its category, even when another category is named.
C5_RelearnIncrements == []OnePerUserAndText /\ [][RelearnStep]_vars

\* A text has been re-learned under a category that differs from the stored
\* one.
C5_Witness ==
  /\ last.op = "add" /\ last.after = "update"
  /\ \E r \in rows : /\ r.id = last.id /\ r.category # last.category
                     /\ r.times_used = ColumnDefaultTimesUsed + 1
                     /\ r.updated_at > r.created_at

\* C6 as claimed: learning from an empty text raises InvalidPatternError and
\* no learned pattern has empty text.
C6_Original ==
  /\ (last.op = "add" /\ last.text = "") =>
        last.outcome = "InvalidPatternError"
  /\ \A r \in rows : r.pattern # ""

\* An add of the empty text is answered by st.error and changes no row.
EmptyAddStep ==
  (last'.op = "add" /\ last'.text = "") =>
     (last'.outcome = "st.error" /\ rows' = rows)

\* C6 amended: the "Add Pattern" handler refuses an empty text with an error
\* message (st.error; no exception is raised) and leaves the registry
\* unchanged; in every reachable state no learned pattern has empty text.
C6_EmptyTextRefused ==
  [](\A r \in rows : r.pattern # "") /\ [][EmptyAddStep]_vars

\* An empty text has been refused while the registry holds patterns.
C6_Witness ==
  last.op = "add" /\ last.text = "" /\ last.outcome = "st.error" /\ rows # {}

\* C7 as claimed: of several matching learned patterns the one inserted
\* first decides the category.
C7_Original ==
  (Categorized /\ MatchingRows # {}) =>
     \E r \in MatchingRows :
        /\ \A q \in MatchingRows : r.id <= q.id
        /\ last.category = r.category

\* C7 amended: of several matching learned patterns the one written last
\* (inserted or re-learned last: the greatest updated_at) decides the
\* category, since get_user_patterns orders by updated_at descending.
C7_LatestWriteWins ==
  (Categorized /\ MatchingRows # {}) =>
     \E r \in MatchingRows :
        /\ \A q \in MatchingRows : r.updated_at >= q.updated_at
        /\ last.category = r.category

\* Two patterns of different categories match; the older one was re-learned
\* after the newer one was inserted, and decides.
C7_Witness ==
  /\ Categorized
  /\ \E r, q \in MatchingRows :
        /\ r.id < q.id /\ r.updated_at > q.updated_at
        /\ r.category # q.category
        /\ last.category = r.category

\* C8: when no learned and no default pattern matches, the result is
\* (REVENUE, 0.5) for an amount > 0 and (OTHER_EXPENSE, 0.5) for an amount
\* <= 0, zero included.
C8_SignFallback ==
  (Categorized /\ MatchingRows = {} /\ DefaultMatchesOf[last.text] = {}) =>
     /\ last.amount > 0 =>
           (last.category = "REVENUE" /\ last.confidence = 50)
     /\ last.amount <= 0 =>
           (last.category = "OTHER_EXPENSE" /\ last.confidence = 50)

\* A zero amount has fallen back to OTHER_EXPENSE while the user has learned
\* patterns, none of which matches.
C8_Witness ==
  /\ Categorized /\ last.amount = 0 /\ last.category = "OTHER_EXPENSE"
  /\ MatchingRows = {} /\ DefaultMatchesOf[last.text] = {}
  /\ \E r \in rows : r.user_id = last.user

\* C9: a categorization that directly follows a categorization of the same
\* description and amount for the same user returns the same category and
\* confidence.
C9_Idempotent ==
  [][(/\ last.op = "categorize" /\ last'.op = "categorize"
      /\ last'.user = last.user /\ last'.text = last.text
      /\ last'.amount = last.amount)
     => (last'.category = last.category
         /\ last'.confidence = last.confidence)]_vars

\* A transaction matched by a learned pattern has been categorized twice in
\* a row.
C9_Witness ==
  Categorized /\ last.after = "same" /\ MatchingRows # {}

\* C15 as claimed: whenever a learned pattern decides a categorization, its
\* times_used grows by one.
C15_TimesUsedCountsMatches ==
  [][\A r \in rows :
        (/\ last'.op = "categorize"
         /\ r.user_id = last'.user
         /\ pattern_in_desc[r.pattern, last'.text]
         /\ \A q \in rows :
               (q.user_id = last'.user
                /\ pattern_in_desc[q.pattern, last'.text])
               => r.updated_at >= q.updated_at)
        => \E q \in rows' : q.id = r.id /\ q.times_used = r.times_used + 1]_vars

\* C16 as claimed: the text stored by a successful add is the pattern key of
\* the text typed (its first two tokens, upper-cased).
C16_Original ==
  (last.op = "add" /\ last.outcome = "success") =>
     \E r \in rows : /\ r.id = last.id /\ r.user_id = last.user
                     /\ chars[r.pattern] = PatternKey(chars[last.text])

\* C16 amended: the text stored by a successful add is the text typed,
\* character for character, so that only identical texts share an entry.
C16_StoredAsTyped ==
  /\ (last.op = "add" /\ last.outcome = "success") =>
        \E r \in rows : /\ r.id = last.id /\ r.user_id = last.user
                        /\ r.pattern = last.text
  /\ \A r, q \in rows :
        (r.user_id = q.user_id /\ r.id # q.id) => r.pattern # q.pattern

\* "acme" has been stored as typed, not as its key "ACME", next to the
\* entry "ACME CORP" of the same user.
C16_Witness ==
  /\ last.op = "add" /\ last.outcome = "success" /\ last.text = P_acme
  /\ \E r, q \in rows :
        /\ r.id = last.id /\ r.pattern = P_acme
        /\ chars[r.pattern] # PatternKey(chars[last.text])
        /\ q.user_id = r.user_id /\ q.pattern = P_ACME_CORP

(* -------------------------- the claims: score -------------------------- *)

\* C10: the score calculate_score returns is an integer from 0 to 100, for
\* the empty list and for every list of transactions, whatever penalties
\* apply.
C10_ScoreInRange ==
  last.op = "score" => score \in 0..100

\* A statement on which every penalty applies in full (30 + 25 + 20 + 15 + 10)
\* with more than three NSF lines has been scored 0.
C10_Witness ==
  /\ last.op = "score" /\ score = 0 /\ txns # << >>
  /\ RatioPenalty(txns) = 30 /\ DebtPenalty(txns) = 25
  /\ VolatilityPenalty(txns) = 20 /\ NsfCount(txns) > 3
  /\ NegativePenalty(txns) = 10

\* The list of transactions before the one appended last.
Front(ts) == SubSeq(ts, 1, Len(ts) - 1)

DebitKeywords ==
  {<<"d","e","b","i","t">>,
   <<"w","i","t","h","d","r","a","w","a","l">>,
   <<"p","a","y","m","e","n","t">>,
   <<"p","u","r","c","h","a","s","e">>}

\* The amount of the line as claimed: the last amount with the sign written
\* before its dollar sign, made negative when the line holds a debit keyword.
ClaimedAmount(s) ==
  LET i == Max(AmountStarts(s))
      magnitude == FloatHundredths(LastAmountText(s))
      written == IF i > 1 /\ s[i - 1] = "-" THEN -magnitude ELSE magnitude
  IN IF written > 0 /\ \E k \in DebitKeywords : str_in(k, str_lower(s))
     THEN -written
     ELSE written

claimed_amount ==
  [l \in Lines |-> IF parsed[l].outcome = "appended"
                   THEN ClaimedAmount(chars[l]) ELSE 0]

\* C17 as claimed: the amount of an extracted transaction is negative when
\* its line holds a debit keyword, and has the sign written on the line
\* otherwise ("01/06 DAILY ACH FUNDBOX -$450.00" gives -450.00).
C17_SignInferred ==
  (last.op = "parse" /\ last.outcome = "appended") =>
     txns[Len(txns)].amount = claimed_amount[last.text]

(* ------------------- the claims: reports of streamlit_app.py ----------- *)

\* The descriptions and the months ('YYYY-MM', the first seven characters of
\* the date) that occur in the list l.
DescriptionsOf(l) == {l[i].description : i \in 1..Len(l)}
MonthsOf(l) == {NameOf(SubSeq(chars[l[i].date], 1, 7)) : i \in 1..Len(l)}

TrueRevenueOf(l) ==
  SumOf(SelectSeq(l, LAMBDA t : t.is_true_revenue), "amount")

\* C11 as claimed: on a list of transactions that is empty or has no true
\* revenue the scorecard returns its metrics, and the holdback metric, where
\* present, has the warning status.
C11_ScorecardDegrades ==
  (report.op = "scorecard" /\ TrueRevenueOf(ledger) <= 0) =>
     /\ report.outcome = "ok"
     /\ \A i \in DOMAIN report.metrics :
           report.metrics[i].Metric = "Holdback %"
           => report.metrics[i].Status = "warn"

\* C18 as claimed: the monthly summary has one row for every month of the
\* transactions, in strictly ascending order of the month, and no row for an
\* empty list.
C18_OneRowPerMonth ==
  report.op = "summary" =>
     /\ report.outcome = "ok"
     /\ Len(report.monthly) = Cardinality(MonthsOf(ledger))
     /\ {report.monthly[i].Month : i \in DOMAIN report.monthly}
          = MonthsOf(ledger)
     /\ \A i, j \in DOMAIN report.monthly :
           i < j => str_less(report.monthly[i].Month, report.monthly[j].Month)

\* C13 as claimed: a description with exactly one transaction is in neither
\* the debt summary nor the table of recurring transactions.
C13_Original ==
  (report.op = "summary" /\ report.outcome = "ok") =>
     \A m \in DescriptionsOf(ledger) :
        Len(GroupRows(ledger, m)) = 1 =>
           /\ \A i \in DOMAIN report.debt : report.debt[i].Lender # m
           /\ \A i \in DOMAIN report.recurring :
                 report.recurring[i].Merchant # m

\* C13 amended: the table of recurring transactions lists only descriptions
\* with at least three transactions; the debt summary lists a description
\* whose one transaction is a debt payment, as monthly and with that amount a
\* month, and no other description with one transaction.
C13_SinglesOnlyInDebtSummary ==
  (report.op = "summary" /\ report.outcome = "ok") =>
     /\ \A i \in DOMAIN report.recurring :
           /\ report.recurring[i].Count >= 3
           /\ report.recurring[i].Count
                = Len(GroupRows(ledger, report.recurring[i].Merchant))
     /\ \A m \in DescriptionsOf(ledger) :
           Len(GroupRows(ledger, m)) = 1 =>
              IF GroupRows(ledger, m)[1].is_debt_payment
              THEN \E i \in DOMAIN report.debt :
                      /\ report.debt[i].Lender = m
                      /\ report.debt[i].Count = 1
                      /\ report.debt[i].Frequency = "monthly"
                      /\ report.debt[i].Est_Monthly.num
                           = Abs(GroupRows(ledger, m)[1].amount)
                               * report.debt[i].Est_Monthly.den
              ELSE \A i \in DOMAIN report.debt : report.debt[i].Lender # m

\* A lender with one payment is in the debt summary, next to a description
\* that is in the table of recurring transactions.
C13_Witness ==
  /\ report.op = "summary" /\ report.outcome = "ok"
  /\ report.recurring # << >>
  /\ \E i \in DOMAIN report.debt :
        /\ report.debt[i].Count = 1
        /\ Len(GroupRows(ledger, report.debt[i].Lender)) = 1

\* The days between the first and the last payment to a lender, and the sum
\* of the absolute amounts paid.
PaymentSpan(l, lender) ==
  Max({ordinal_of[l[i].date] : i \in {j \in 1..Len(l) :
         l[j].is_debt_payment /\ l[j].description = lender}})
  - Min({ordinal_of[l[i].date] : i \in {j \in 1..Len(l) :
           l[j].is_debt_payment /\ l[j].description = lender}})

\* C19: for a lender with n >= 2 payments the mean gap between consecutive
\* days is span / (n - 1); the frequency is daily when it is <= 2, weekly
\* when it is <= 9 and monthly otherwise, and the estimate for a month is
\* the mean absolute amount times 22, 4 and 1.
C19_FrequencyByMeanGap ==
  (report.op = "summary" /\ report.outcome = "ok") =>
     \A i \in DOMAIN report.debt :
        LET e == report.debt[i]
            n == Len(LenderRows(ledger, e.Lender))
            span == PaymentSpan(ledger, e.Lender)
            times == IF span <= 2 * (n - 1) THEN 22
                     ELSE IF span <= 9 * (n - 1) THEN 4 ELSE 1
        IN n >= 2 =>
             /\ e.Frequency = (IF span <= 2 * (n - 1) THEN "daily"
                               ELSE IF span <= 9 * (n - 1) THEN "weekly"
                               ELSE "monthly")
             /\ e.Est_Monthly.num * n
                  = times * SumAbs(LenderRows(ledger, e.Lender))
                      * e.Est_Monthly.den

\* Two payments of 450 that are 14 days apart, the later one first in the
\* list, are reported as monthly with 450 a month.
C19_Witness ==
  /\ report.op = "summary" /\ report.outcome = "ok"
  /\ ledger = <<T_MCA_20, T_MCA_06>>
  /\ PaymentSpan(ledger, "FUNDBOX") = 14
  /\ report.debt[1].Frequency = "monthly"
  /\ report.debt[1].Est_Monthly.num = 450 * report.debt[1].Est_Monthly.den

\* The debt type of the first payment to a lender in the list l.
FirstDebtType(l, lender) ==
  l[Min({j \in 1..Len(l) :
           l[j].is_debt_payment /\ l[j].description = lender})].debt_type

\* The class of a description as claimed: mca or term_loan by the debt type
\* of its transactions, else other_recurring when debits outnumber the
\* credits, else none.
ClaimedClass(l, m) ==
  LET g == GroupRows(l, m) IN
  IF \A i \in 1..Len(g) : g[i].debt_type = "mca" THEN "mca"
  ELSE IF \A i \in 1..Len(g) : g[i].debt_type = "term_loan" THEN "term_loan"
  ELSE IF 2 * Len(SelectSeq(g, LAMBDA t : t.amount < 0)) > Len(g)
       THEN "other_recurring"
  ELSE "none"

\* The class that a Group of the debt summary stands for.
ClassOfGroup(group) ==
  IF group = "Merchant Cash Advance" THEN "mca"
  ELSE IF group = "Term Loan" THEN "term_loan"
  ELSE group

\* C20 as claimed: every description with at least two transactions has one
\* class, the claimed one, and no description that is neither MCA nor loan
\* is reported as a term loan.
C20_Original ==
  (report.op = "summary" /\ report.outcome = "ok") =>
     /\ \A m \in DescriptionsOf(ledger) :
           Len(GroupRows(ledger, m)) >= 2 =>
              /\ Cardinality({i \in DOMAIN report.debt :
                                report.debt[i].Lender = m}) = 1
              /\ \A i \in DOMAIN report.debt :
                    report.debt[i].Lender = m
                    => ClassOfGroup(report.debt[i].Group)
                         = ClaimedClass(ledger, m)
     /\ \A i \in DOMAIN report.debt :
           report.debt[i].Group = "Term Loan"
           => ClaimedClass(ledger, report.debt[i].Lender) = "term_loan"

\* C20 amended: the debt summary has one row for every description with a
\* debt payment and none for any other; its Group is Merchant Cash Advance
\* when the first payment to the lender has debt type mca, and Term Loan in
\* every other case.
C20_TwoGroups ==
  (report.op = "summary" /\ report.outcome = "ok") =>
     /\ \A m \in DescriptionsOf(ledger) :
           Cardinality({i \in DOMAIN report.debt :
                          report.debt[i].Lender = m})
             = IF \E j \in 1..Len(ledger) :
                     ledger[j].is_debt_payment /\ ledger[j].description = m
               THEN 1 ELSE 0
     /\ \A i \in DOMAIN report.debt :
           /\ report.debt[i].Lender \in DescriptionsOf(ledger)
           /\ report.debt[i].Group \in {"Merchant Cash Advance", "Term Loan"}
           /\ report.debt[i].Group = "Merchant Cash Advance"
                <=> FirstDebtType(ledger, report.debt[i].Lender) = "mca"

\* A lender whose first payment carries no debt type and whose second is an
\* MCA payment is reported as Term Loan, with no term loan among its rows.
C20_Witness ==
  /\ report.op = "summary" /\ report.outcome = "ok"
  /\ \E i \in DOMAIN report.debt :
        /\ report.debt[i].Group = "Term Loan"
        /\ FirstDebtType(ledger, report.debt[i].Lender) = "None"
        /\ \E j \in 1..Len(ledger) :
              /\ ledger[j].description = report.debt[i].Lender
              /\ ledger[j].debt_type = "mca"
        /\ \A j \in 1..Len(ledger) :
              ledger[j].description = report.debt[i].Lender
              => ledger[j].debt_type # "term_loan"

(* --------------------- the claims: stored transactions ----------------- *)

\* C14: a correction of an existing transaction sets its category to the one
\* given and user_corrected to true, leaves its confidence, date, description
\* and amount as they were and touches no other transaction; a correction
\* with an id that does not exist changes no transaction; and no other
\* operation changes the category or the mark of a stored transaction.
C14_CorrectionFrame ==
  [][/\ last'.op = "correct" =>
          \A t \in transactions :
             \E n \in transactions' :
                /\ n.id = t.id
                /\ n.category_confidence = t.category_confidence
                /\ n.date = t.date
                /\ n.description = t.description
                /\ n.amount = t.amount
                /\ n.statement_id = t.statement_id
                /\ IF t.id = last'.id
                   THEN n.category = last'.category /\ n.user_corrected
                   ELSE n = t
     /\ last'.op = "correct" =>
          /\ Cardinality(transactions') = Cardinality(transactions)
          /\ (\A t \in transactions : t.id # last'.id)
               => transactions' = transactions
     /\ last'.op # "correct" =>
          \A t \in transactions : \A n \in transactions' :
             n.id = t.id => /\ n.category = t.category
                            /\ n.user_corrected = t.user_corrected]_vars

\* A transaction stored as RENT with confidence 1.0 has been corrected to
\* another category, has kept its confidence, and a pattern that matches its
\* description has been taught afterwards with a third category.
C14_Witness ==
  /\ last.op = "add" /\ last.outcome = "success"
  /\ \E t \in transactions :
        /\ t.user_corrected
        /\ t.category \in CorrectionCategories
        /\ t.category_confidence = DefaultConfidence
        /\ t.updated_at > t.created_at
        /\ pattern_in_desc[last.text, t.description]
        /\ last.category # t.category
        /\ \E st \in statements : st.id = t.statement_id /\ st.user_id = last.user

(* ------------------- the claims: rows of the monthly summary ----------- *)

\* C21 as claimed: in every row of the monthly summary the holdback
\* percentage is the MCA debits divided by max(true revenue, 1), times 100.
C21_HoldbackFloorGuarded ==
  (report.op = "summary" /\ report.outcome = "ok") =>
     \A i \in DOMAIN report.monthly :
        report.monthly[i].Holdback.num
            * Max({report.monthly[i].True_Revenue, 1})
          = 100 * report.monthly[i].MCA_Debits
              * report.monthly[i].Holdback.den

\* The positions in the list l of the transactions of a month, and among
\* them those of its first and of its last day.
MonthPositions(l, month) ==
  {i \in 1..Len(l) : NameOf(SubSeq(chars[l[i].date], 1, 7)) = month}
FirstDayPositions(l, month) ==
  {i \in MonthPositions(l, month) :
     \A j \in MonthPositions(l, month) :
        ordinal_of[l[i].date] <= ordinal_of[l[j].date]}
LastDayPositions(l, month) ==
  {i \in MonthPositions(l, month) :
     \A j \in MonthPositions(l, month) :
        ordinal_of[l[j].date] <= ordinal_of[l[i].date]}

C23_OneEntryAfterConcurrentSaves ==
  (clock > 0 /\ \A s \in Sessions : calls[s].pc # "write") =>
     Cardinality(ExistingRows(rows, RaceUser, RacePattern)) = 1

\* C24: whenever login or signup returns a failure result (False, message),
\* the session state is unchanged by that call: authenticated, user, user_id
\* and email keep their previous values, also when the failure occurs in the
\* database step after the provider accepted the credentials.
C24_FailureLeavesSession ==
  [][(last'.op \in {"login", "signup"} /\ last'.outcome = "False")
       => session' = session]_vars

====
